---- MODULE Spec2Model ----
(***************************************************************************)
(* A model of the monkey-rs tree-walking evaluator (src/src/evaluator.rs,  *)
(* environment.rs, builtin.rs, object.rs) and of its expression parser.    *)
(* Three specifications: Spec is one test of the evaluator (one program,   *)
(* one fresh Environment), Session is a read-eval-print loop on one        *)
(* Environment, Parser is one test of the expression parser.               *)
(*                                                                         *)
(* The evaluator is a set of mutually recursive Rust functions; each is a  *)
(* recursive operator here, with the same name.  A Rust function taking    *)
(* `env: &mut Environment` becomes an operator taking env and returning a  *)
(* record [value, env, host]: the returned object, the environment as the  *)
(* function leaves it, and the host record.  The host record carries what  *)
(* the Rust process has besides the interpreter's data: whether the thread *)
(* has panicked (a panic unwinds through every caller), the depth of the   *)
(* native call stack, and a history of the nodes entered and the objects   *)
(* returned, which the properties below read.                              *)
(*                                                                         *)
(* Objects (Box<dyn Object>) are records tagged by `type`, the string that *)
(* ObjectType::as_str gives.  TLC cannot compare an integer with a boolean *)
(* or a sequence, so each variant names its payload field differently:     *)
(*   Integer.value  Boolean.b  StringObj.s  ReturnValue.rv  Error.message  *)
(*   Array.elements  Hash.pairs  Function.{parameters, body, env}          *)
(*   Builtin.func                                                          *)
(* A String is the sequence of its characters.  An Error message is the    *)
(* sequence of the pieces that format! joins.                              *)
(***************************************************************************)
EXTENDS Integers, Sequences, FiniteSets, TLC

\* i64 and usize are modelled IntBits wide (TLC's integers are 32 bits wide).
IntBits == 8
\* Depth of nested eval calls at which the native stack overflows.
MaxStack == 13
\* Longest array literal of the generated programs.
MaxLen == 3
\* Longest argument list of a call of a built-in function.
MaxArgs == 3
\* Deepest nesting of if-blocks in the generated programs.
MaxNest == 2
\* Most pairs in a hash literal of the generated programs.
MaxPairs == 2
\* Most binary operators in a generated expression text.
MaxOps == 2

VARIABLES
    pc,               \* position of the host: "start", "prompt", "eval", "done", "aborted"; of a parser test: "read", "parsed"
    env,              \* the Environment handed to eval_program
    program,          \* the Program parse_program returned
    results,          \* the object eval_program returned
    trace,            \* history: nodes entered, objects returned, functions applied
    text,            \* the tokens of the text handed to the parser (empty where the program is given as a tree)
    overflow_checks   \* build profile: TRUE for debug (arithmetic overflow panics), FALSE for release (it wraps)

vars == <<pc, env, program, results, trace, text, overflow_checks>>

----------------------------------------------------------------------------
\* AST (src/src/ast.rs, with the variants src/src/evaluator.rs matches on)

Number(n) == [kind |-> "Number", n |-> n]
Identifier(name) == [kind |-> "Identifier", name |-> name]
BooleanLit(b) == [kind |-> "Boolean", b |-> b]
StringLit(s) == [kind |-> "StringLit", s |-> s]
InfixOp(left, operator, right) == [kind |-> "InfixOp", left |-> left, operator |-> operator, right |-> right]
PrefixOp(operator, right) == [kind |-> "PrefixOp", operator |-> operator, right |-> right]
NoAlternative == [kind |-> "None"]
If(condition, consequence, alternative) == [kind |-> "If", condition |-> condition, consequence |-> consequence, alternative |-> alternative]
FuncLit(parameters, body) == [kind |-> "FuncLit", parameters |-> parameters, body |-> body]
Call(function, arguments) == [kind |-> "Call", function |-> function, arguments |-> arguments]
ArrayLit(elements) == [kind |-> "ArrayLit", elements |-> elements]
Index(left, index) == [kind |-> "Index", left |-> left, index |-> index]
HashLit(pairs) == [kind |-> "HashLit", pairs |-> pairs]

Let(name, value) == [kind |-> "Let", name |-> name, value |-> value]
Return(return_value) == [kind |-> "Return", return_value |-> return_value]
ExprStmt(expression) == [kind |-> "Expr", expression |-> expression]
Block(statements) == [kind |-> "Block", statements |-> statements]
Program(statements) == [statements |-> statements]

StmtKinds == {"Let", "Return", "Expr", "Block"}

\* Opcode::as_str
Opcode_as_str(operator) ==
    CASE operator = "Mul" -> "*"
      [] operator = "Div" -> "/"
      [] operator = "Add" -> "+"
      [] operator = "Sub" -> "-"
      [] operator = "Bang" -> "!"
      [] operator = "Eq" -> "=="
      [] operator = "NotEq" -> "!="
      [] operator = "Lt" -> "<"
      [] operator = "Gt" -> ">"

----------------------------------------------------------------------------
\* Objects (src/src/object.rs)

Integer(value) == [type |-> "INTEGER", value |-> value]
Boolean(b) == [type |-> "BOOLEAN", b |-> b]
Null == [type |-> "NULL"]
StringObj(s) == [type |-> "STRING", s |-> s]
ReturnValue(value) == [type |-> "RETURN_VALUE", rv |-> value]
Error(message) == [type |-> "ERROR", message |-> message]
Function(parameters, body, fenv) == [type |-> "FUNCTION", parameters |-> parameters, body |-> body, env |-> fenv]
Builtin(func) == [type |-> "BUILTIN", func |-> func]
Array(elements) == [type |-> "ARRAY", elements |-> elements]
Hash(pairs) == [type |-> "HASH", pairs |-> pairs]

\* Not an object: what a function that panicked hands back while the thread unwinds.
Panic(message) == [type |-> "PANIC", message |-> message]

object_type(object) == object.type

\* evaluator.rs new_error
new_error(pieces) == Error(pieces)

\* evaluator.rs is_error
is_error(object) == object_type(object) = "ERROR"

----------------------------------------------------------------------------
\* Machine integers

RECURSIVE Pow2(_)
Pow2(n) == IF n = 0 THEN 1 ELSE 2 * Pow2(n - 1)

I64_MAX == Pow2(IntBits - 1) - 1
I64_MIN == -Pow2(IntBits - 1)
USIZE_MAX == Pow2(IntBits) - 1

\* two's complement wrap of a mathematical integer into i64
wrap_i64(n) == ((n - I64_MIN) % Pow2(IntBits)) + I64_MIN

\* `x as usize` of an i64
as_usize(n) == n % Pow2(IntBits)

\* i64 `+ - *` and unary `-`: the mathematical result when it fits; otherwise a
\* panic with overflow checks on and the wrapped result with them off.
checked_i64(n, what) ==
    IF I64_MIN <= n /\ n <= I64_MAX THEN Integer(n)
    ELSE IF overflow_checks THEN Panic(<<"attempt to ", what, " with overflow">>)
    ELSE Integer(wrap_i64(n))

\* i64 `/`: truncates toward zero; panics on a zero divisor and on MIN / -1
Abs(n) == IF n < 0 THEN -n ELSE n
div_i64(l, r) ==
    IF r = 0 THEN Panic(<<"attempt to divide by zero">>)
    ELSE IF l = I64_MIN /\ r = -1 THEN Panic(<<"attempt to divide with overflow">>)
    ELSE IF (l < 0) = (r < 0) THEN Integer(Abs(l) \div Abs(r))
    ELSE Integer(-(Abs(l) \div Abs(r)))

\* usize `-`
checked_usize_sub(a, b) ==
    IF a >= b THEN Integer(a - b)
    ELSE IF overflow_checks THEN Panic(<<"attempt to subtract with overflow">>)
    ELSE Integer((a - b) % Pow2(IntBits))

----------------------------------------------------------------------------
\* Environment (src/src/environment.rs)

NoOuter == [none |-> TRUE]
EmptyStore == << >>

\* Environment::new
Environment_new == [store |-> EmptyStore, outer |-> NoOuter]

\* Mutant of new_enclosed: the new environment has no outer environment
new_enclosed_without_outer(outer) == [store |-> EmptyStore, outer |-> NoOuter]

\* Environment::new_enclosed: the outer environment is cloned into the new one
new_enclosed(outer) == [store |-> EmptyStore, outer |-> outer]

\* Option<ObjectRef>
None == [none |-> TRUE]
Some(object) == [some |-> object]
is_some(option) == "some" \in DOMAIN option

\* Environment::get
RECURSIVE Environment_get(_, _)
Environment_get(e, name) ==
    IF name \in DOMAIN e.store THEN Some(e.store[name])
    ELSE IF e.outer = NoOuter THEN None
    ELSE Environment_get(e.outer, name)

\* Environment::set: HashMap::insert gives the value the name had; the method
\* returns it, or Null when the name was not bound in this scope.
Environment_set(e, name, value) ==
    [env |-> [e EXCEPT !.store = [n \in (DOMAIN e.store) \cup {name} |-> IF n = name THEN value ELSE e.store[n]]],
     value |-> IF name \in DOMAIN e.store THEN e.store[name] ELSE Null]

----------------------------------------------------------------------------
\* Built-in functions (src/src/builtin.rs)

\* The grave accent of the messages (a TLA+ string cannot hold the character).
BQ == "<grave>"

len_builtin(args) ==
    IF Len(args) # 1
    THEN new_error(<<"wrong number of arguments. got=", ToString(Len(args)), ", want=1">>)
    ELSE IF object_type(args[1]) = "STRING" THEN Integer(Len(args[1].s))
    ELSE IF object_type(args[1]) = "ARRAY" THEN Integer(Len(args[1].elements))
    ELSE new_error(<<"argument to ", BQ, "len", BQ, " not supported, got ", object_type(args[1])>>)

\* Mutant of first_builtin: the type of the first argument is looked at before the count
first_builtin_checks_type_first(args) ==
    IF Len(args) >= 1 /\ object_type(args[1]) # "ARRAY"
    THEN new_error(<<"argument to ", BQ, "first", BQ, " must be ARRAY, got ", object_type(args[1])>>)
    ELSE IF Len(args) # 1
    THEN new_error(<<"wrong number of arguments. got=", ToString(Len(args)), ", want=1">>)
    ELSE IF args[1].elements = << >> THEN Null ELSE args[1].elements[1]

first_builtin(args) ==
    IF Len(args) # 1
    THEN new_error(<<"wrong number of arguments. got=", ToString(Len(args)), ", want=1">>)
    ELSE IF object_type(args[1]) = "ARRAY"
    THEN IF args[1].elements = << >> THEN Null ELSE args[1].elements[1]
    ELSE new_error(<<"argument to ", BQ, "first", BQ, " must be ARRAY, got ", object_type(args[1])>>)

last_builtin(args) ==
    IF Len(args) # 1
    THEN new_error(<<"wrong number of arguments. got=", ToString(Len(args)), ", want=1">>)
    ELSE IF object_type(args[1]) = "ARRAY"
    THEN IF args[1].elements = << >> THEN Null ELSE args[1].elements[Len(args[1].elements)]
    ELSE new_error(<<"argument to ", BQ, "last", BQ, " must be ARRAY, got ", object_type(args[1])>>)

rest_builtin(args) ==
    IF Len(args) # 1
    THEN new_error(<<"wrong number of arguments. got=", ToString(Len(args)), ", want=1">>)
    ELSE IF object_type(args[1]) = "ARRAY"
    THEN IF args[1].elements = << >> THEN Null ELSE Array(Tail(args[1].elements))
    ELSE new_error(<<"argument to ", BQ, "rest", BQ, " must be ARRAY, got ", object_type(args[1])>>)

\* Mutant of push_builtin: the element is never pushed onto the copy
push_builtin_forgets_element(args) ==
    IF Len(args) # 2
    THEN new_error(<<"wrong number of arguments. got=", ToString(Len(args)), ", want=2">>)
    ELSE IF object_type(args[1]) = "ARRAY"
    THEN Array(args[1].elements)
    ELSE new_error(<<"argument to ", BQ, "push", BQ, " must be ARRAY, got ", object_type(args[1])>>)

push_builtin(args) ==
    IF Len(args) # 2
    THEN new_error(<<"wrong number of arguments. got=", ToString(Len(args)), ", want=2">>)
    ELSE IF object_type(args[1]) = "ARRAY"
    THEN Array(Append(args[1].elements, args[2]))
    ELSE new_error(<<"argument to ", BQ, "push", BQ, " must be ARRAY, got ", object_type(args[1])>>)

\* BUILTINS: the registry's names
BUILTINS == {"len", "first", "last", "rest", "push"}

\* get_builtin
get_builtin(name) == IF name \in BUILTINS THEN Some(Builtin(name)) ELSE None

\* (builtin.func)(args): the call through the function pointer
call_builtin(func, args) ==
    CASE func = "len" -> len_builtin(args)
      [] func = "first" -> first_builtin(args)
      [] func = "last" -> last_builtin(args)
      [] func = "rest" -> rest_builtin(args)
      [] func = "push" -> push_builtin(args)

----------------------------------------------------------------------------
\* Debug formatting of the AST (src/src/ast.rs) and inspect (src/src/object.rs)

RECURSIVE Debug_fmt(_)
RECURSIVE Debug_list(_, _, _)
\* the elements of nodes from i on, each after a ", " but for the first
Debug_list(nodes, i, sep) ==
    IF i > Len(nodes) THEN << >>
    ELSE (IF i > 1 THEN <<sep>> ELSE << >>) \o Debug_fmt(nodes[i]) \o Debug_list(nodes, i + 1, sep)

RECURSIVE Debug_block(_, _)
Debug_block(statements, i) ==
    IF i > Len(statements) THEN << >>
    ELSE <<"  ">> \o Debug_fmt(statements[i]) \o <<"\n">> \o Debug_block(statements, i + 1)

\* impl Debug for Stmt, Expr
Debug_fmt(node) ==
    CASE node.kind = "Let" -> <<"let ", node.name, " = ">> \o Debug_fmt(node.value)
      [] node.kind = "Return" -> <<"return ">> \o Debug_fmt(node.return_value)
      [] node.kind = "Expr" -> Debug_fmt(node.expression)
      [] node.kind = "Block" -> <<"{", "\n">> \o Debug_block(node.statements, 1) \o <<"}">>
      [] node.kind = "Number" -> <<ToString(node.n)>>
      [] node.kind = "Identifier" -> <<node.name>>
      [] node.kind = "Boolean" -> <<IF node.b THEN "true" ELSE "false">>
      [] node.kind = "InfixOp" ->
            <<"(">> \o Debug_fmt(node.left) \o <<" ", Opcode_as_str(node.operator), " ">> \o Debug_fmt(node.right) \o <<")">>
      [] node.kind = "PrefixOp" -> <<"(", Opcode_as_str(node.operator)>> \o Debug_fmt(node.right) \o <<")">>
      [] node.kind = "If" ->
            <<"if (">> \o Debug_fmt(node.condition) \o <<") ">> \o Debug_fmt(node.consequence)
            \o (IF node.alternative.kind = "None" THEN << >> ELSE <<" else ">> \o Debug_fmt(node.alternative))
      [] node.kind = "FuncLit" -> <<"fn(">> \o Debug_list(node.parameters, 1, ", ") \o <<") ">> \o Debug_fmt(node.body)
      [] node.kind = "Call" -> Debug_fmt(node.function) \o <<"(">> \o Debug_list(node.arguments, 1, ", ") \o <<")">>
      [] OTHER -> <<"<", node.kind, ">">>

RECURSIVE inspect(_)
RECURSIVE inspect_elements(_, _)
inspect_elements(elements, i) ==
    IF i > Len(elements) THEN << >>
    ELSE (IF i > 1 THEN <<", ">> ELSE << >>) \o inspect(elements[i]) \o inspect_elements(elements, i + 1)

RECURSIVE inspect_pairs(_, _)
inspect_pairs(pairs, i) ==
    IF i > Len(pairs) THEN << >>
    ELSE (IF i > 1 THEN <<", ">> ELSE << >>) \o inspect(pairs[i].key) \o <<": ">> \o inspect(pairs[i].value)
         \o inspect_pairs(pairs, i + 1)

\* Object::inspect
inspect(object) ==
    CASE object.type = "INTEGER" -> <<ToString(object.value)>>
      [] object.type = "NULL" -> <<"null">>
      [] object.type = "BOOLEAN" -> <<IF object.b THEN "true" ELSE "false">>
      [] object.type = "RETURN_VALUE" -> inspect(object.rv)
      [] object.type = "ERROR" -> object.message
      [] object.type = "FUNCTION" ->
            <<"fn(">> \o Debug_list(object.parameters, 1, ", ") \o <<") ">> \o Debug_fmt(object.body)
      [] object.type = "STRING" -> object.s
      [] object.type = "BUILTIN" -> <<"builtin function">>
      [] object.type = "ARRAY" -> <<"[">> \o inspect_elements(object.elements, 1) \o <<"]">>
      [] object.type = "HASH" -> <<"{">> \o inspect_pairs(object.pairs, 1) \o <<"}">>

\* char::escape_debug for the characters the messages can hold
escape_debug(piece) ==
    CASE piece = "\"" -> "\\\""
      [] piece = "\\" -> "\\\\"
      [] piece = "\n" -> "\\n"
      [] OTHER -> piece

\* format!("{:?}", s) of a string: the string between double quotes, its own double
\* quotes, backslashes and newlines escaped
Debug_str(pieces) == <<"\"">> \o [i \in 1..Len(pieces) |-> escape_debug(pieces[i])] \o <<"\"">>

----------------------------------------------------------------------------
\* Hash keys

\* Hashable::hash_key: the type tag and a 64-bit number; a string's number is
\* its hash, taken here to be one number per string
hash_key(object) ==
    CASE object.type = "INTEGER" -> [type |-> "INTEGER", n |-> as_usize(object.value)]
      [] object.type = "BOOLEAN" -> [type |-> "BOOLEAN", n |-> IF object.b THEN 1 ELSE 0]
      [] object.type = "STRING" -> [type |-> "STRING", h |-> object.s]

\* HashMap::insert, on the pairs kept in the order of their first insertion
RECURSIVE hash_insert(_, _, _)
hash_insert(pairs, key, pair) ==
    IF pairs = << >> THEN <<[hash_key |-> key, key |-> pair.key, value |-> pair.value]>>
    ELSE IF pairs[1].hash_key = key
    THEN <<[hash_key |-> key, key |-> pair.key, value |-> pair.value]>> \o Tail(pairs)
    ELSE <<pairs[1]>> \o hash_insert(Tail(pairs), key, pair)

\* HashMap::get
RECURSIVE hash_get(_, _)
hash_get(pairs, key) ==
    IF pairs = << >> THEN None
    ELSE IF pairs[1].hash_key = key THEN Some(pairs[1])
    ELSE hash_get(Tail(pairs), key)

----------------------------------------------------------------------------
\* The evaluator's leaf functions (src/src/evaluator.rs)

\* eval_native_boolean
eval_native_boolean(input) == IF input THEN Boolean(TRUE) ELSE Boolean(FALSE)

\* Mutant of is_truthy: the Integer 0 counts as false
is_truthy_zero_is_false(object) ==
    IF object_type(object) = "BOOLEAN" THEN object.b
    ELSE IF object_type(object) = "NULL" THEN FALSE
    ELSE IF object_type(object) = "INTEGER" THEN object.value # 0
    ELSE TRUE

\* is_truthy
is_truthy(object) ==
    IF object_type(object) = "BOOLEAN" THEN object.b
    ELSE IF object_type(object) = "NULL" THEN FALSE
    ELSE TRUE

\* eval_integer_infix_expression
eval_integer_infix_expression(operator, left, right) ==
    CASE operator = "Add" -> checked_i64(left.value + right.value, "add")
      [] operator = "Sub" -> checked_i64(left.value - right.value, "subtract")
      [] operator = "Mul" -> checked_i64(left.value * right.value, "multiply")
      [] operator = "Div" -> div_i64(left.value, right.value)
      [] operator = "Eq" -> eval_native_boolean(left.value = right.value)
      [] operator = "NotEq" -> eval_native_boolean(left.value # right.value)
      [] operator = "Lt" -> eval_native_boolean(left.value < right.value)
      [] operator = "Gt" -> eval_native_boolean(left.value > right.value)
      [] OTHER -> new_error(<<"unknown operator: INTEGER ", Opcode_as_str(operator), " INTEGER">>)

\* eval_boolean_infix_expression
eval_boolean_infix_expression(operator, left, right) ==
    IF object_type(left) = "BOOLEAN" /\ object_type(right) = "BOOLEAN"
    THEN CASE operator = "Eq" -> eval_native_boolean(left.b = right.b)
           [] operator = "NotEq" -> eval_native_boolean(left.b # right.b)
           [] OTHER -> new_error(<<"unknown operator: BOOLEAN ", Opcode_as_str(operator), " BOOLEAN">>)
    ELSE new_error(<<"unknown operator: ", object_type(left), " ", Opcode_as_str(operator), " ", object_type(right)>>)

\* eval_string_infix_expression
eval_string_infix_expression(operator, left, right) ==
    CASE operator = "Add" -> StringObj(left.s \o right.s)
      [] OTHER -> new_error(<<"unknown operator: STRING ", Opcode_as_str(operator), " STRING">>)

\* Mutant of eval_infix_expression: an operator the left operand's type does not have is
\* reported before the types are compared
eval_infix_expression_operator_first(operator, left, right) ==
    IF object_type(left) \notin {"INTEGER", "STRING"} /\ operator \notin {"Eq", "NotEq"}
    THEN new_error(<<"unknown operator: ", object_type(left), " ", Opcode_as_str(operator), " ", object_type(right)>>)
    ELSE IF object_type(left) # object_type(right)
    THEN new_error(<<"type mismatch: ", object_type(left), " ", Opcode_as_str(operator), " ", object_type(right)>>)
    ELSE IF object_type(left) = "INTEGER" /\ object_type(right) = "INTEGER"
    THEN eval_integer_infix_expression(operator, left, right)
    ELSE IF object_type(left) = "STRING" /\ object_type(right) = "STRING"
    THEN eval_string_infix_expression(operator, left, right)
    ELSE eval_boolean_infix_expression(operator, left, right)

\* eval_infix_expression
eval_infix_expression(operator, left, right) ==
    IF object_type(left) # object_type(right)
    THEN new_error(<<"type mismatch: ", object_type(left), " ", Opcode_as_str(operator), " ", object_type(right)>>)
    ELSE IF object_type(left) = "INTEGER" /\ object_type(right) = "INTEGER"
    THEN eval_integer_infix_expression(operator, left, right)
    ELSE IF object_type(left) = "STRING" /\ object_type(right) = "STRING"
    THEN eval_string_infix_expression(operator, left, right)
    ELSE CASE operator \in {"Eq", "NotEq"} -> eval_boolean_infix_expression(operator, left, right)
           [] OTHER -> new_error(<<"unknown operator: ", object_type(left), " ", Opcode_as_str(operator), " ", object_type(right)>>)

\* eval_bang_operator_expression
eval_bang_operator_expression(right) ==
    IF object_type(right) = "BOOLEAN"
    THEN IF right.b THEN Boolean(FALSE) ELSE Boolean(TRUE)
    ELSE Boolean(FALSE)

\* eval_prefix_expression
eval_prefix_expression(operator, right) ==
    CASE operator = "Bang" -> eval_bang_operator_expression(right)
      [] operator = "Sub" ->
            IF object_type(right) = "INTEGER" THEN checked_i64(-right.value, "negate")
            ELSE new_error(<<"unknown operator: -", object_type(right)>>)
      [] OTHER -> new_error(<<"unknown operator: ", Opcode_as_str(operator), object_type(right)>>)

\* Mutant of eval_identifier_expression: the environment is consulted before the
\* built-in registry
eval_identifier_expression_environment_first(name, e) ==
    IF is_some(Environment_get(e, name)) THEN Environment_get(e, name).some
    ELSE IF is_some(get_builtin(name)) THEN get_builtin(name).some
    ELSE new_error(<<"identifier not found: ", name>>)

\* eval_identifier_expression
eval_identifier_expression(name, e) ==
    IF is_some(get_builtin(name)) THEN get_builtin(name).some
    ELSE IF is_some(Environment_get(e, name)) THEN Environment_get(e, name).some
    ELSE new_error(<<"identifier not found: ", name>>)

\* str::trim_matches('"')
RECURSIVE trim_start_matches(_)
trim_start_matches(s) == IF s # << >> /\ Head(s) = "\"" THEN trim_start_matches(Tail(s)) ELSE s
RECURSIVE trim_end_matches(_)
trim_end_matches(s) ==
    IF s # << >> /\ s[Len(s)] = "\"" THEN trim_end_matches(SubSeq(s, 1, Len(s) - 1)) ELSE s
trim_matches(s) == trim_end_matches(trim_start_matches(s))

\* Mutant of eval_hash_index_expression: a Boolean index is looked up as the Integer 1 or 0
eval_hash_index_expression_ignores_tag(hash, index) ==
    IF object_type(index) = "BOOLEAN"
    THEN IF is_some(hash_get(hash.pairs, hash_key(Integer(IF index.b THEN 1 ELSE 0))))
         THEN hash_get(hash.pairs, hash_key(Integer(IF index.b THEN 1 ELSE 0))).some.value
         ELSE Null
    ELSE IF object_type(index) \in {"INTEGER", "STRING"}
    THEN IF is_some(hash_get(hash.pairs, hash_key(index)))
         THEN hash_get(hash.pairs, hash_key(index)).some.value
         ELSE Null
    ELSE new_error(<<"unusable as hash key: ">> \o Debug_str(inspect(index)))

\* eval_hash_index_expression
eval_hash_index_expression(hash, index) ==
    IF object_type(index) \in {"INTEGER", "BOOLEAN", "STRING"}
    THEN IF is_some(hash_get(hash.pairs, hash_key(index)))
         THEN hash_get(hash.pairs, hash_key(index)).some.value
         ELSE Null
    ELSE new_error(<<"unusable as hash key: ">> \o Debug_str(inspect(index)))

\* eval_index_expression
eval_index_expression(left, index) ==
    IF object_type(left) = "ARRAY" /\ object_type(index) = "INTEGER"
    THEN LET idx == as_usize(index.value)
             max == checked_usize_sub(Len(left.elements), 1)
         IN  IF max.type = "PANIC" THEN max
             ELSE IF idx >= Len(left.elements) \/ idx > max.value THEN Null
             ELSE left.elements[idx + 1]
    ELSE IF object_type(left) = "HASH" THEN eval_hash_index_expression(left, index)
    ELSE new_error(<<"index operator not supported: ", object_type(left), "[", object_type(index), "]">>)

----------------------------------------------------------------------------
\* The recursive evaluator (src/src/evaluator.rs)

\* The host at the start of eval_program
NewHost == [panicked |-> FALSE, panic |-> << >>, level |-> 0, trace |-> << >>]

\* What a function of (node, env) gives back
R(value, e, host) == [value |-> value, env |-> e, host |-> host]

\* The thread panics: the value is never read
Unwind(message, e, host) == R(Null, e, [host EXCEPT !.panicked = TRUE, !.panic = message])

\* The object a leaf function returned, or the panic it raised
Ret(object, e, host) == IF object.type = "PANIC" THEN Unwind(object.message, e, host) ELSE R(object, e, host)

Record(host, event) == [host EXCEPT !.trace = Append(@, event)]

RECURSIVE eval(_, _, _)
RECURSIVE Stmt_eval(_, _, _)
RECURSIVE Expr_eval(_, _, _)
RECURSIVE Program_loop(_, _, _, _, _)
RECURSIVE Block_loop(_, _, _, _, _)
RECURSIVE eval_expressions_loop(_, _, _, _, _)
RECURSIVE eval_hash_literal_loop(_, _, _, _, _)
RECURSIVE apply_function(_, _, _)
RECURSIVE bind_parameters(_, _, _, _)

\* let x = <value>; <Body>: the rest of the function reads x, which is
\* computed once
Bind(value, Body(_)) == Body(value)

\* Mutant of Program_loop: the ReturnValue is returned without being unwrapped
Program_loop_keeps_wrapper(statements, i, result, e, host) ==
    IF i > Len(statements) THEN R(result, e, host)
    ELSE Bind(eval(statements[i], e, host), LAMBDA r :
             IF r.host.panicked THEN r
             ELSE IF object_type(r.value) = "RETURN_VALUE" THEN r
             ELSE IF object_type(r.value) = "ERROR" THEN r
             ELSE Program_loop(statements, i + 1, r.value, r.env, r.host))

\* impl Node for Program: the loop over self.statements from statement i on
Program_loop(statements, i, result, e, host) ==
    IF i > Len(statements) THEN R(result, e, host)
    ELSE Bind(eval(statements[i], e, host), LAMBDA r :
             IF r.host.panicked THEN r
             ELSE IF object_type(r.value) = "RETURN_VALUE" THEN R(r.value.rv, r.env, r.host)
             ELSE IF object_type(r.value) = "ERROR" THEN r
             ELSE Program_loop(statements, i + 1, r.value, r.env, r.host))

\* impl Node for Program: eval
Program_eval(prog, e, host) == Program_loop(prog.statements, 1, Null, e, host)

\* Mutant of Block_loop: the Block unwraps the ReturnValue as the Program does
Block_loop_unwraps(statements, i, result, e, host) ==
    IF i > Len(statements) THEN R(result, e, host)
    ELSE Bind(eval(statements[i], e, host), LAMBDA r :
             IF r.host.panicked THEN r
             ELSE IF object_type(r.value) = "RETURN_VALUE" THEN R(r.value.rv, r.env, r.host)
             ELSE IF object_type(r.value) = "ERROR" THEN r
             ELSE Block_loop(statements, i + 1, r.value, r.env, r.host))

\* Stmt::Block: the loop over statements from statement i on
Block_loop(statements, i, result, e, host) ==
    IF i > Len(statements) THEN R(result, e, host)
    ELSE Bind(eval(statements[i], e, host), LAMBDA r :
             IF r.host.panicked THEN r
             ELSE IF object_type(r.value) = "RETURN_VALUE" THEN r
             ELSE IF object_type(r.value) = "ERROR" THEN r
             ELSE Block_loop(statements, i + 1, r.value, r.env, r.host))

\* Mutant of Stmt::Let: the functions bound in the scope share the scope with it, so
\* that they see the binding although it was made after they were
shared_with_closures(e, name, value) ==
    [e EXCEPT !.store = [n \in DOMAIN e.store |->
        IF object_type(e.store[n]) = "FUNCTION"
        THEN [e.store[n] EXCEPT !.env = Environment_set(e.store[n].env, name, value).env]
        ELSE e.store[n]]]
Stmt_Let_shared_environment(node, e, host) ==
    Bind(eval(node.value, e, host), LAMBDA value :
        IF value.host.panicked THEN value
        ELSE IF is_error(value.value) THEN value
        ELSE Bind(Environment_set(value.env, node.name, value.value), LAMBDA set :
                 R(set.value, shared_with_closures(set.env, node.name, value.value), value.host)))

\* Stmt::Let
Stmt_Let(node, e, host) ==
    Bind(eval(node.value, e, host), LAMBDA value :
        IF value.host.panicked THEN value
        ELSE IF is_error(value.value) THEN value
        ELSE Bind(Environment_set(value.env, node.name, value.value), LAMBDA set :
                 R(set.value, set.env, value.host)))

\* Stmt::Return
Stmt_Return(node, e, host) ==
    Bind(eval(node.return_value, e, host), LAMBDA value :
        IF value.host.panicked THEN value
        ELSE IF is_error(value.value) THEN value
        ELSE R(ReturnValue(value.value), value.env, value.host))

\* impl Node for Stmt: eval
Stmt_eval(node, e, host) ==
    CASE node.kind = "Let" -> Stmt_Let(node, e, host)
      [] node.kind = "Return" -> Stmt_Return(node, e, host)
      [] node.kind = "Expr" -> eval(node.expression, e, host)
      [] node.kind = "Block" -> Block_loop(node.statements, 1, Null, e, host)

\* eval_expressions: the loop from expression i on; an Error ends it with
\* the one-element vector holding the Error
eval_expressions_loop(expressions, i, result, e, host) ==
    IF i > Len(expressions) THEN R(result, e, host)
    ELSE Bind(eval(expressions[i], e, host), LAMBDA evaluated :
             IF evaluated.host.panicked THEN R(<< >>, evaluated.env, evaluated.host)
             ELSE IF is_error(evaluated.value) THEN R(<<evaluated.value>>, evaluated.env, evaluated.host)
             ELSE eval_expressions_loop(expressions, i + 1, Append(result, evaluated.value),
                                        evaluated.env, evaluated.host))

\* eval_expressions
eval_expressions(expressions, e, host) == eval_expressions_loop(expressions, 1, << >>, e, host)

\* Mutant of apply_function's loop: a call whose argument count differs from the
\* parameter count is rejected
bind_parameters_checks_arity(parameters, args, i, extended_env) ==
    IF Len(parameters) # Len(args)
    THEN [env |-> extended_env, error |-> Some(new_error(<<"wrong number of arguments">>))]
    ELSE IF i > Len(parameters) THEN [env |-> extended_env, error |-> None]
    ELSE bind_parameters(parameters, args, i + 1, Environment_set(extended_env, parameters[i].name, args[i]).env)

\* apply_function: the loop binding func.parameters to args, from position i on
bind_parameters(parameters, args, i, extended_env) ==
    IF i > Len(parameters) \/ i > Len(args) THEN [env |-> extended_env, error |-> None]
    ELSE IF parameters[i].kind = "Identifier"
    THEN bind_parameters(parameters, args, i + 1, Environment_set(extended_env, parameters[i].name, args[i]).env)
    ELSE [env |-> extended_env,
          error |-> Some(new_error(<<"invalid parameter: ">> \o Debug_fmt(parameters[i])))]

\* The history gets the call: the function, its arguments and the environment
\* its body is about to run in
Applied(host, function, args, extended_env) ==
    Record(host, [ev |-> "apply", level |-> host.level, function |-> function, args |-> args,
                  env |-> extended_env])

\* Mutant of apply_function: the body's ReturnValue is handed to the caller as it is
apply_function_keeps_wrapper(function, args, host) ==
    IF object_type(function) = "BUILTIN"
    THEN [value |-> call_builtin(function.func, args), host |-> host]
    ELSE IF object_type(function) = "FUNCTION"
    THEN Bind(bind_parameters(function.parameters, args, 1, new_enclosed(function.env)), LAMBDA bound :
             IF is_some(bound.error) THEN [value |-> bound.error.some, host |-> host]
             ELSE Bind(eval(function.body, bound.env, Applied(host, function, args, bound.env)),
                       LAMBDA evaluated :
                           IF evaluated.host.panicked THEN [value |-> Null, host |-> evaluated.host]
                           ELSE [value |-> evaluated.value, host |-> evaluated.host]))
    ELSE [value |-> new_error(<<"not a function: ">> \o Debug_str(<<object_type(function)>>)), host |-> host]

\* apply_function
apply_function(function, args, host) ==
    IF object_type(function) = "BUILTIN"
    THEN [value |-> call_builtin(function.func, args), host |-> host]
    ELSE IF object_type(function) = "FUNCTION"
    THEN Bind(bind_parameters(function.parameters, args, 1, new_enclosed(function.env)), LAMBDA bound :
             IF is_some(bound.error) THEN [value |-> bound.error.some, host |-> host]
             ELSE Bind(eval(function.body, bound.env, Applied(host, function, args, bound.env)),
                       LAMBDA evaluated :
                           IF evaluated.host.panicked THEN [value |-> Null, host |-> evaluated.host]
                           ELSE IF object_type(evaluated.value) = "RETURN_VALUE"
                           THEN [value |-> evaluated.value.rv, host |-> evaluated.host]
                           ELSE [value |-> evaluated.value, host |-> evaluated.host]))
    ELSE [value |-> new_error(<<"not a function: ">> \o Debug_str(<<object_type(function)>>)), host |-> host]

\* eval_hash_literal: the loop over pairs from pair i on
eval_hash_literal_loop(pairs, i, hash, e, host) ==
    IF i > Len(pairs) THEN R(Hash(hash), e, host)
    ELSE Bind(eval(pairs[i][1], e, host), LAMBDA key :
             IF key.host.panicked THEN key
             ELSE IF is_error(key.value) THEN key
             ELSE IF object_type(key.value) \notin {"INTEGER", "BOOLEAN", "STRING"}
             THEN R(new_error(<<"unusable as hash key: ">> \o Debug_str(inspect(key.value))), key.env, key.host)
             ELSE Bind(eval(pairs[i][2], key.env, key.host), LAMBDA value :
                      IF value.host.panicked THEN value
                      ELSE IF is_error(value.value) THEN value
                      ELSE eval_hash_literal_loop(pairs, i + 1,
                               hash_insert(hash, hash_key(key.value), [key |-> key.value, value |-> value.value]),
                               value.env, value.host)))

\* eval_hash_literal
eval_hash_literal(pairs, e, host) == eval_hash_literal_loop(pairs, 1, << >>, e, host)

\* Expr::InfixOp
Expr_InfixOp(node, e, host) ==
    Bind(eval(node.left, e, host), LAMBDA left_value :
        IF left_value.host.panicked THEN left_value
        ELSE IF is_error(left_value.value) THEN left_value
        ELSE Bind(eval(node.right, left_value.env, left_value.host), LAMBDA right_value :
                 IF right_value.host.panicked THEN right_value
                 ELSE IF is_error(right_value.value) THEN right_value
                 ELSE Ret(eval_infix_expression(node.operator, left_value.value, right_value.value),
                          right_value.env, right_value.host)))

\* Expr::PrefixOp
Expr_PrefixOp(node, e, host) ==
    Bind(eval(node.right, e, host), LAMBDA right_value :
        IF right_value.host.panicked THEN right_value
        ELSE IF is_error(right_value.value) THEN right_value
        ELSE Ret(eval_prefix_expression(node.operator, right_value.value), right_value.env, right_value.host))

\* Mutant of Expr::If: the branch is evaluated in a scope of its own
Expr_If_opens_scope(node, e, host) ==
    Bind(eval(node.condition, e, host), LAMBDA condition_value :
        IF condition_value.host.panicked THEN condition_value
        ELSE IF is_truthy(condition_value.value)
        THEN Bind(eval(node.consequence, new_enclosed(condition_value.env), condition_value.host),
                  LAMBDA branch : R(branch.value, condition_value.env, branch.host))
        ELSE IF node.alternative.kind # "None"
        THEN Bind(eval(node.alternative, new_enclosed(condition_value.env), condition_value.host),
                  LAMBDA branch : R(branch.value, condition_value.env, branch.host))
        ELSE R(Null, condition_value.env, condition_value.host))

\* Expr::If
Expr_If(node, e, host) ==
    Bind(eval(node.condition, e, host), LAMBDA condition_value :
        IF condition_value.host.panicked THEN condition_value
        ELSE IF is_truthy(condition_value.value)
        THEN eval(node.consequence, condition_value.env, condition_value.host)
        ELSE IF node.alternative.kind # "None"
        THEN eval(node.alternative, condition_value.env, condition_value.host)
        ELSE R(Null, condition_value.env, condition_value.host))

\* Mutant of Expr_FuncLit: the function is given an empty environment
Expr_FuncLit_captures_nothing(node, e, host) == R(Function(node.parameters, node.body, Environment_new), e, host)

\* Expr::FuncLit: the function keeps a clone of the environment
Expr_FuncLit(node, e, host) == R(Function(node.parameters, node.body, e), e, host)

\* Mutant of Expr::Call: the parameters are bound in the caller's environment as well
Expr_Call_binds_in_caller(node, e, host) ==
    Bind(eval(node.function, e, host), LAMBDA function :
        IF function.host.panicked THEN function
        ELSE IF is_error(function.value) THEN function
        ELSE Bind(eval_expressions(node.arguments, function.env, function.host), LAMBDA args :
                 IF args.host.panicked THEN R(Null, args.env, args.host)
                 ELSE IF Len(args.value) = 1 /\ is_error(args.value[1]) THEN R(args.value[1], args.env, args.host)
                 ELSE Bind(apply_function(function.value, args.value, args.host),
                           LAMBDA applied :
                               R(applied.value,
                                 IF object_type(function.value) = "FUNCTION"
                                 THEN bind_parameters(function.value.parameters, args.value, 1, args.env).env
                                 ELSE args.env,
                                 applied.host))))

\* Expr::Call
Expr_Call(node, e, host) ==
    Bind(eval(node.function, e, host), LAMBDA function :
        IF function.host.panicked THEN function
        ELSE IF is_error(function.value) THEN function
        ELSE Bind(eval_expressions(node.arguments, function.env, function.host), LAMBDA args :
                 IF args.host.panicked THEN R(Null, args.env, args.host)
                 ELSE IF Len(args.value) = 1 /\ is_error(args.value[1]) THEN R(args.value[1], args.env, args.host)
                 ELSE Bind(apply_function(function.value, args.value, args.host),
                           LAMBDA applied : R(applied.value, args.env, applied.host))))

\* Expr::ArrayLit
Expr_ArrayLit(node, e, host) ==
    Bind(eval_expressions(node.elements, e, host), LAMBDA elements :
        IF elements.host.panicked THEN R(Null, elements.env, elements.host)
        ELSE IF Len(elements.value) = 1 /\ is_error(elements.value[1])
        THEN R(elements.value[1], elements.env, elements.host)
        ELSE R(Array(elements.value), elements.env, elements.host))

\* Expr::Index
Expr_Index(node, e, host) ==
    Bind(eval(node.left, e, host), LAMBDA left :
        IF left.host.panicked THEN left
        ELSE IF is_error(left.value) THEN left
        ELSE Bind(eval(node.index, left.env, left.host), LAMBDA index :
                 IF index.host.panicked THEN index
                 ELSE IF is_error(index.value) THEN index
                 ELSE Ret(eval_index_expression(left.value, index.value), index.env, index.host)))

\* impl Node for Expr: eval
Expr_eval(node, e, host) ==
    CASE node.kind = "Number" -> R(Integer(node.n), e, host)
      [] node.kind = "Identifier" -> R(eval_identifier_expression(node.name, e), e, host)
      [] node.kind = "Boolean" -> R(eval_native_boolean(node.b), e, host)
      [] node.kind = "StringLit" -> R(StringObj(trim_matches(node.s)), e, host)
      [] node.kind = "InfixOp" -> Expr_InfixOp(node, e, host)
      [] node.kind = "PrefixOp" -> Expr_PrefixOp(node, e, host)
      [] node.kind = "If" -> Expr_If(node, e, host)
      [] node.kind = "FuncLit" -> Expr_FuncLit(node, e, host)
      [] node.kind = "Call" -> Expr_Call(node, e, host)
      [] node.kind = "ArrayLit" -> Expr_ArrayLit(node, e, host)
      [] node.kind = "Index" -> Expr_Index(node, e, host)
      [] node.kind = "HashLit" -> eval_hash_literal(node.pairs, e, host)

\* The thread enters node.eval: one more native frame, and the history gets
\* the node
Entered(host, node) ==
    [host EXCEPT !.level = @ + 1, !.trace = Append(@, [ev |-> "enter", level |-> host.level + 1, node |-> node])]

\* The thread leaves node.eval with r: the frame is gone, and the history
\* gets the object returned
Exited(host, r) ==
    IF r.host.panicked THEN r
    ELSE [r EXCEPT !.host = [r.host EXCEPT !.level = host.level,
                                            !.trace = Append(@, [ev |-> "exit", level |-> host.level + 1,
                                                                 value |-> r.value])]]

\* fn eval(node, env): the call of node.eval through the Node trait.  The
\* native stack overflows at MaxStack nested calls.
eval(node, e, host) ==
    IF host.level >= MaxStack THEN Unwind(<<"stack overflow">>, e, host)
    ELSE IF node.kind \in StmtKinds
    THEN Exited(host, Stmt_eval(node, e, Entered(host, node)))
    ELSE Exited(host, Expr_eval(node, e, Entered(host, node)))

\* Mutant of eval_program: the program runs on a copy of the caller's environment
eval_program_on_a_copy(prog, e) == [Program_eval(prog, e, NewHost) EXCEPT !.env = e]

\* eval_program
eval_program(prog, e) == Program_eval(prog, e, NewHost)

----------------------------------------------------------------------------
\* The programs handed to eval_program: the ASTs parse_program gives for the
\* inputs of the evaluator's tests and of families of inputs built like them.

\* The lexeme of a string literal keeps its double quotes in the AST
Quoted(chars) == <<"\"">> \o chars \o <<"\"">>

Params(names) == [i \in 1..Len(names) |-> Identifier(names[i])]
Fn(names, statements) == FuncLit(Params(names), Block(statements))
IfThen(condition, statements) == If(condition, Block(statements), NoAlternative)
IfElse(condition, statements, otherwise) == If(condition, Block(statements), Block(otherwise))

\* Integer literals of the generated programs
SmallInts == -2..2

\* The AST of the integer v as it is written: the grammar has no negative
\* literal, -2 is the prefix operator applied to 2
Lit(v) == IF v < 0 THEN PrefixOp("Sub", Number(-v)) ELSE Number(v)

\* [10, 20, .. 10*n]
ArrayOfLen(n) == ArrayLit([i \in 1..n |-> Number(10 * i)])
ElementsOfLen(n) == [i \in 1..n |-> Integer(10 * i)]

\* test_error_handling
ErrorTests ==
    { Program(<<ExprStmt(InfixOp(Number(5), "Add", BooleanLit(TRUE)))>>),
      Program(<<ExprStmt(InfixOp(Number(5), "Add", BooleanLit(TRUE))), ExprStmt(Number(5))>>),
      Program(<<ExprStmt(PrefixOp("Sub", BooleanLit(TRUE)))>>),
      Program(<<ExprStmt(InfixOp(BooleanLit(TRUE), "Add", BooleanLit(FALSE)))>>),
      Program(<<ExprStmt(Number(5)), ExprStmt(InfixOp(BooleanLit(TRUE), "Add", BooleanLit(FALSE))), ExprStmt(Number(5))>>),
      Program(<<ExprStmt(IfThen(InfixOp(Number(10), "Gt", Number(1)),
                                <<ExprStmt(InfixOp(BooleanLit(TRUE), "Add", BooleanLit(FALSE)))>>))>>),
      Program(<<ExprStmt(IfThen(InfixOp(Number(10), "Gt", Number(1)),
                                <<ExprStmt(IfThen(InfixOp(Number(10), "Gt", Number(1)),
                                                  <<Return(InfixOp(BooleanLit(TRUE), "Add", BooleanLit(FALSE)))>>)),
                                  Return(Number(1))>>))>>),
      Program(<<ExprStmt(Identifier("foobar"))>>),
      Program(<<ExprStmt(InfixOp(StringLit(Quoted(<<"H", "i">>)), "Sub", StringLit(Quoted(<<"Y", "o">>))))>>) }

\* An unbound identifier first, in each construct that evaluates sub-expressions in turn
ErrorFirst ==
    { Program(<<ExprStmt(InfixOp(Identifier("foobar"), "Add", Number(1)))>>),
      Program(<<ExprStmt(InfixOp(Number(1), "Add", Identifier("foobar"))), ExprStmt(Number(5))>>),
      Program(<<ExprStmt(PrefixOp("Sub", Identifier("foobar")))>>),
      Program(<<ExprStmt(PrefixOp("Bang", Identifier("foobar")))>>),
      Program(<<ExprStmt(IfElse(Identifier("foobar"), <<ExprStmt(Number(10))>>, <<ExprStmt(Number(20))>>))>>),
      Program(<<ExprStmt(IfThen(Identifier("foobar"), <<ExprStmt(Number(10))>>))>>),
      Program(<<ExprStmt(Call(Identifier("foobar"), <<Number(1)>>))>>),
      Program(<<ExprStmt(Call(Identifier("len"), <<Identifier("foobar"), Number(1)>>))>>),
      Program(<<ExprStmt(Call(Identifier("push"), <<ArrayLit(<< >>), Identifier("foobar")>>))>>),
      Program(<<ExprStmt(ArrayLit(<<Identifier("foobar"), Number(1)>>))>>),
      Program(<<ExprStmt(ArrayLit(<<Number(1), Identifier("foobar"), Number(2)>>))>>),
      Program(<<ExprStmt(Index(Identifier("foobar"), Number(1)))>>),
      Program(<<ExprStmt(Index(ArrayLit(<<Number(1)>>), Identifier("foobar")))>>),
      Program(<<ExprStmt(HashLit(<< <<Identifier("foobar"), Number(1)>> >>))>>),
      Program(<<ExprStmt(HashLit(<< <<Number(1), Identifier("foobar")>>, <<Number(2), Number(2)>> >>))>>),
      Program(<<Let("a", Identifier("foobar")), ExprStmt(Number(5))>>),
      Program(<<Return(Identifier("foobar")), ExprStmt(Number(5))>>),
      Program(<<ExprStmt(IfThen(BooleanLit(TRUE), <<ExprStmt(Identifier("foobar")), ExprStmt(Number(5))>>)),
                ExprStmt(Number(6))>>),
      Program(<<Let("f", Fn(<<"x">>, <<ExprStmt(Identifier("foobar")), ExprStmt(Identifier("x"))>>)),
                ExprStmt(Call(Identifier("f"), <<Number(1)>>)), ExprStmt(Number(5))>>) }

\* Scenario 6 of the specification: map over an array with a recursive helper
Scenario6 ==
    Program(<<
        Let("map", Fn(<<"arr", "f">>, <<
            Let("iter", Fn(<<"a", "acc">>, <<
                ExprStmt(IfElse(InfixOp(Call(Identifier("len"), <<Identifier("a")>>), "Eq", Number(0)),
                    <<ExprStmt(Identifier("acc"))>>,
                    <<ExprStmt(Call(Identifier("iter"), <<
                        Call(Identifier("rest"), <<Identifier("a")>>),
                        Call(Identifier("push"), <<Identifier("acc"),
                            Call(Identifier("f"), <<Call(Identifier("first"), <<Identifier("a")>>)>>)>>)>>))>>))>>)),
            ExprStmt(Call(Identifier("iter"), <<Identifier("arr"), ArrayLit(<< >>)>>))>>)),
        ExprStmt(Call(Identifier("map"), <<ArrayLit(<<Number(1), Number(2), Number(3)>>),
                                           Fn(<<"x">>, <<ExprStmt(InfixOp(Identifier("x"), "Mul", Number(2)))>>)>>))>>)

\* let countdown = fn(n) { if (n == 0) { 0 } else { countdown(n - 1) } }; countdown(n);
Countdown(n) ==
    Program(<<
        Let("countdown", Fn(<<"n">>, <<
            ExprStmt(IfElse(InfixOp(Identifier("n"), "Eq", Number(0)),
                <<ExprStmt(Number(0))>>,
                <<ExprStmt(Call(Identifier("countdown"), <<InfixOp(Identifier("n"), "Sub", Number(1))>>))>>))>>)),
        ExprStmt(Call(Identifier("countdown"), <<Number(n)>>))>>)

RecursionPrograms == {Scenario6} \cup {Countdown(n) : n \in 0..2}

\* let newAdder = fn(x) { fn(y) { x + y; }; }; newAdder(x)(y);
ClosureProgram(x, y) ==
    Program(<<
        Let("newAdder", Fn(<<"x">>, <<ExprStmt(Fn(<<"y">>, <<ExprStmt(InfixOp(Identifier("x"), "Add", Identifier("y")))>>))>>)),
        ExprStmt(Call(Call(Identifier("newAdder"), <<Lit(x)>>), <<Lit(y)>>))>>)

\* test_closures: let newAdder = fn(x) { fn(y) { x + y; }; }; let addTwo = newAdder(x); addTwo(y);
ClosureLetProgram(x, y) ==
    Program(<<
        Let("newAdder", Fn(<<"x">>, <<ExprStmt(Fn(<<"y">>, <<ExprStmt(InfixOp(Identifier("x"), "Add", Identifier("y")))>>))>>)),
        Let("addTwo", Call(Identifier("newAdder"), <<Lit(x)>>)),
        ExprStmt(Call(Identifier("addTwo"), <<Lit(y)>>))>>)

\* let scale = fn(x) { let k = x * 2; fn(y) { k + y; }; }; scale(x)(y);
ClosureBindingProgram(x, y) ==
    Program(<<
        Let("scale", Fn(<<"x">>, <<
            Let("k", InfixOp(Identifier("x"), "Mul", Number(2))),
            ExprStmt(Fn(<<"y">>, <<ExprStmt(InfixOp(Identifier("k"), "Add", Identifier("y")))>>))>>)),
        ExprStmt(Call(Call(Identifier("scale"), <<Lit(x)>>), <<Lit(y)>>))>>)

\* The operands of the closure programs: small integers and the largest
\* integer with its negation, whose sums leave the range of i64
ClosureInts == SmallInts \cup {I64_MAX, -I64_MAX}

\* x + y;
SumProgram(x, y) == Program(<<ExprStmt(InfixOp(Lit(x), "Add", Lit(y)))>>)

ClosurePrograms ==
    {ClosureProgram(x, y) : x \in ClosureInts, y \in ClosureInts}
    \cup {ClosureLetProgram(x, y) : x \in ClosureInts, y \in ClosureInts}
    \cup {ClosureBindingProgram(x, y) : x \in SmallInts, y \in SmallInts}


\* An if-expression whose block executes `return`, as the operand of let,
\* return, an array element, a call argument and a hash value
ReturningIf(v) == IfThen(BooleanLit(TRUE), <<Return(Lit(v))>>)
WrapperPrograms ==
    { Program(<<Let("a", ReturningIf(1)), ExprStmt(Number(5))>>),
      Program(<<Let("a", ReturningIf(1)), ExprStmt(Identifier("a")), ExprStmt(Number(5))>>),
      Program(<<Return(ReturningIf(1))>>),
      Program(<<ExprStmt(ArrayLit(<<ReturningIf(1), Number(2)>>))>>),
      Program(<<Let("id", Fn(<<"x">>, <<ExprStmt(Identifier("x"))>>)),
                ExprStmt(Call(Identifier("id"), <<ReturningIf(1)>>))>>),
      Program(<<ExprStmt(Call(Identifier("first"), <<ArrayLit(<<ReturningIf(1)>>)>>))>>),
      Program(<<ExprStmt(HashLit(<< <<Number(1), ReturningIf(1)>> >>))>>) }

\* k times `9;`
Nines(k) == [i \in 1..k |-> ExprStmt(Number(9))]

\* test_eval_return_statement: 9; ..; return v; 9; let after = 1;
TopReturnProgram(k, v) ==
    Program(Nines(k) \o <<Return(Lit(v)), ExprStmt(Number(9)), Let("after", Number(1))>>)

\* 9; ..; v;
LastValueProgram(k, v) == Program(Nines(k) \o <<ExprStmt(Lit(v))>>)

TopLevelPrograms ==
    {TopReturnProgram(k, v) : k \in 0..2, v \in SmallInts}
    \cup {LastValueProgram(k, v) : k \in 0..2, v \in SmallInts}
    \cup { Program(<< >>),
           Program(<<Let("a", Number(5))>>),
           Program(<<Let("a", Number(5)), Let("a", Number(6))>>),
           Program(<<ExprStmt(Number(1)), Return(InfixOp(Number(2), "Mul", Number(5))), ExprStmt(Number(9))>>) }

\* if (true) { if (true) { .. return v; let inner = 1; }; let skipped = d; }; let skipped = 0;
RECURSIVE NestedReturnBody(_, _)
NestedReturnBody(d, v) ==
    IF d = 0 THEN <<Return(Lit(v)), Let("inner", Number(1))>>
    ELSE <<ExprStmt(IfThen(BooleanLit(TRUE), NestedReturnBody(d - 1, v))), Let("skipped", Number(d))>>
NestedReturnProgram(d, v) == Program(NestedReturnBody(d, v))

\* The same with the return in the alternative of each if
RECURSIVE NestedElseBody(_, _)
NestedElseBody(d, v) ==
    IF d = 0 THEN <<Return(Lit(v)), Let("inner", Number(1))>>
    ELSE <<ExprStmt(IfElse(BooleanLit(FALSE), <<Let("skipped", Number(d))>>, NestedElseBody(d - 1, v))),
           Let("skipped", Number(d))>>
NestedElseProgram(d, v) == Program(NestedElseBody(d, v))

NestedReturnPrograms ==
    {NestedReturnProgram(d, v) : d \in 0..MaxNest, v \in SmallInts}
    \cup {NestedElseProgram(d, v) : d \in 0..MaxNest, v \in SmallInts}

\* test_function_application: let f = fn(x) { return x; let inner = 1; }; f(v); 9;
FnReturnThenProgram(v) ==
    Program(<<Let("f", Fn(<<"x">>, <<Return(Identifier("x")), Let("inner", Number(1))>>)),
              ExprStmt(Call(Identifier("f"), <<Lit(v)>>)),
              ExprStmt(Number(9))>>)

\* let f = fn(x) { return x; let inner = 1; }; f(v) + 1;
FnReturnOperandProgram(v) ==
    Program(<<Let("f", Fn(<<"x">>, <<Return(Identifier("x")), Let("inner", Number(1))>>)),
              ExprStmt(InfixOp(Call(Identifier("f"), <<Lit(v)>>), "Add", Number(1)))>>)

\* let f = fn(x) { if (true) { return x; }; 77; }; let r = f(v); r * 2;
FnNestedReturnProgram(v) ==
    Program(<<Let("f", Fn(<<"x">>, <<ExprStmt(IfThen(BooleanLit(TRUE), <<Return(Identifier("x"))>>)), ExprStmt(Number(77))>>)),
              Let("r", Call(Identifier("f"), <<Lit(v)>>)),
              ExprStmt(InfixOp(Identifier("r"), "Mul", Number(2)))>>)

FnReturnPrograms ==
    {FnReturnThenProgram(v) : v \in SmallInts}
    \cup {FnReturnOperandProgram(v) : v \in SmallInts}
    \cup {FnNestedReturnProgram(v) : v \in SmallInts}

\* let g = fn() { z; }; let h = fn(z) { g(); }; h(v);
CallerScopeProgram(v) ==
    Program(<<Let("g", Fn(<< >>, <<ExprStmt(Identifier("z"))>>)),
              Let("h", Fn(<<"z">>, <<ExprStmt(Call(Identifier("g"), << >>))>>)),
              ExprStmt(Call(Identifier("h"), <<Lit(v)>>))>>)

\* let z = 100; let g = fn() { z; }; let h = fn(z) { g(); }; h(v);
DefinerScopeProgram(v) ==
    Program(<<Let("z", Number(100)),
              Let("g", Fn(<< >>, <<ExprStmt(Identifier("z"))>>)),
              Let("h", Fn(<<"z">>, <<ExprStmt(Call(Identifier("g"), << >>))>>)),
              ExprStmt(Call(Identifier("h"), <<Lit(v)>>))>>)

\* let g = fn() { z; }; let h = fn() { let z = v; g(); }; h();
CallerLetProgram(v) ==
    Program(<<Let("g", Fn(<< >>, <<ExprStmt(Identifier("z"))>>)),
              Let("h", Fn(<< >>, <<Let("z", Lit(v)), ExprStmt(Call(Identifier("g"), << >>))>>)),
              ExprStmt(Call(Identifier("h"), << >>))>>)

ScopePrograms ==
    {CallerScopeProgram(v) : v \in SmallInts}
    \cup {DefinerScopeProgram(v) : v \in SmallInts}
    \cup {CallerLetProgram(v) : v \in SmallInts}

\* test_array_index_expressions: [10, .., 10*n][i];
IndexProgram(n, i) == Program(<<ExprStmt(Index(ArrayOfLen(n), Lit(i)))>>)
IndexPrograms == {IndexProgram(n, i) : n \in 0..MaxLen, i \in -2..(MaxLen + 1)}

\* let a = [10, .., 10*n]; push(a, x);
PushProgram(n, x) ==
    Program(<<Let("a", ArrayOfLen(n)), ExprStmt(Call(Identifier("push"), <<Identifier("a"), Lit(x)>>))>>)

\* let a = [10, .., 10*n]; push(a, x); len(a);
PushLenProgram(n, x) ==
    Program(<<Let("a", ArrayOfLen(n)), ExprStmt(Call(Identifier("push"), <<Identifier("a"), Lit(x)>>)),
              ExprStmt(Call(Identifier("len"), <<Identifier("a")>>))>>)

\* let a = [10, .., 10*n]; let b = push(a, x); a[i];
PushIndexProgram(n, x, i) ==
    Program(<<Let("a", ArrayOfLen(n)), Let("b", Call(Identifier("push"), <<Identifier("a"), Lit(x)>>)),
              ExprStmt(Index(Identifier("a"), Lit(i)))>>)

PushPrograms ==
    {PushProgram(n, x) : n \in 0..MaxLen, x \in SmallInts}
    \cup {PushLenProgram(n, x) : n \in 0..MaxLen, x \in SmallInts}
    \cup {PushIndexProgram(n, x, i) : n \in 0..MaxLen, x \in SmallInts, i \in 0..MaxLen}

\* test_builtin_functions_with_errors: name(a1, .., ak) for every built-in and 0..MaxArgs arguments
ArgumentExprs == {Lit(1), StringLit(Quoted(<<"a", "b">>)), ArrayOfLen(0), ArrayOfLen(2)}
RECURSIVE ArgumentLists(_)
ArgumentLists(k) ==
    IF k = 0 THEN {<< >>}
    ELSE {Append(arguments, a) : arguments \in ArgumentLists(k - 1), a \in ArgumentExprs}
BuiltinProgram(name, arguments) == Program(<<ExprStmt(Call(Identifier(name), arguments))>>)
BuiltinPrograms ==
    {BuiltinProgram(name, arguments) :
        name \in BUILTINS, arguments \in UNION {ArgumentLists(k) : k \in 0..MaxArgs}}

\* test_hash_index_expressions: {k1: 10, .., kn: 10*n}[k]; for hashable keys
KeyObjects ==
    {Integer(-1), Integer(0), Integer(1), Boolean(TRUE), Boolean(FALSE),
     StringObj(<<"a">>), StringObj(<<"b">>)}
KeyExpr(key) ==
    CASE key.type = "INTEGER" -> Lit(key.value)
      [] key.type = "BOOLEAN" -> BooleanLit(key.b)
      [] key.type = "STRING" -> StringLit(Quoted(key.s))
RECURSIVE KeyLists(_)
KeyLists(n) ==
    IF n = 0 THEN {<< >>} ELSE {Append(keys, key) : keys \in KeyLists(n - 1), key \in KeyObjects}
HashOfKeys(keys) == HashLit([i \in 1..Len(keys) |-> <<KeyExpr(keys[i]), Number(10 * i)>>])
HashIndexProgram(keys, key) == Program(<<ExprStmt(Index(HashOfKeys(keys), KeyExpr(key)))>>)
HashIndexPrograms ==
    {HashIndexProgram(keys, key) : keys \in UNION {KeyLists(n) : n \in 0..MaxPairs}, key \in KeyObjects}

\* test_error_handling: L op R; for every infix operator and an operand of each type
InfixOperators == {"Mul", "Div", "Add", "Sub", "Eq", "NotEq", "Lt", "Gt"}
OperandTypes == {"INTEGER", "BOOLEAN", "STRING", "NULL", "ARRAY", "HASH", "FUNCTION", "BUILTIN"}
OperandOfType(type) ==
    CASE type = "INTEGER" -> Number(1)
      [] type = "BOOLEAN" -> BooleanLit(TRUE)
      [] type = "STRING" -> StringLit(Quoted(<<"a">>))
      [] type = "NULL" -> IfThen(BooleanLit(FALSE), <<ExprStmt(Number(1))>>)
      [] type = "ARRAY" -> ArrayOfLen(1)
      [] type = "HASH" -> HashLit(<< >>)
      [] type = "FUNCTION" -> Fn(<<"x">>, <<ExprStmt(Identifier("x"))>>)
      [] type = "BUILTIN" -> Identifier("len")
InfixProgram(ltype, operator, rtype) ==
    Program(<<ExprStmt(InfixOp(OperandOfType(ltype), operator, OperandOfType(rtype)))>>)
InfixPrograms ==
    {InfixProgram(ltype, operator, rtype) :
        ltype \in OperandTypes, operator \in InfixOperators, rtype \in OperandTypes}

\* test_eval_if_expression: if (c) { 10; }; and if (c) { 10; } else { 20; };
Conditions ==
    {OperandOfType(type) : type \in OperandTypes}
    \cup {Number(0), BooleanLit(FALSE), StringLit(Quoted(<< >>)), ArrayOfLen(0),
          InfixOp(Number(1), "Lt", Number(2)), InfixOp(Number(1), "Gt", Number(2))}
Consequence == Block(<<ExprStmt(Number(10))>>)
Alternative == Block(<<ExprStmt(Number(20))>>)
IfProgram(condition, alternative) == Program(<<ExprStmt(If(condition, Consequence, alternative))>>)
IfPrograms == {IfProgram(condition, alternative) : condition \in Conditions, alternative \in {NoAlternative, Alternative}}

\* test_eval_integer_expression at the ends of i64: x op y; and -x;
EdgeInts == {I64_MIN, -I64_MAX, -1, 0, 1, 2, I64_MAX}
\* i64::MIN has no literal: it is written -i64::MAX - 1
IntExpr(v) == IF v = I64_MIN THEN InfixOp(Lit(-I64_MAX), "Sub", Number(1)) ELSE Lit(v)
ArithmeticProgram(x, operator, y) == Program(<<ExprStmt(InfixOp(IntExpr(x), operator, IntExpr(y)))>>)
NegationProgram(x) == Program(<<ExprStmt(PrefixOp("Sub", IntExpr(x)))>>)
ArithmeticPrograms ==
    {ArithmeticProgram(x, operator, y) : x \in EdgeInts, operator \in {"Add", "Sub", "Mul", "Div"}, y \in EdgeInts}
    \cup {NegationProgram(x) : x \in EdgeInts}

\* let f = fn(g) { g(g); }; f(f);
SelfApplication ==
    Program(<<Let("f", Fn(<<"g">>, <<ExprStmt(Call(Identifier("g"), <<Identifier("g")>>))>>)),
              ExprStmt(Call(Identifier("f"), <<Identifier("f")>>))>>)
TerminationPrograms == {SelfApplication}

\* if (c) { 10; }; and if (c) { 10; } else { 20; }; with a condition that is an Error
ErrorConditions ==
    {Identifier("foobar"), InfixOp(Number(5), "Add", BooleanLit(TRUE)), PrefixOp("Sub", BooleanLit(TRUE))}
IfErrorPrograms ==
    {IfProgram(condition, alternative) : condition \in ErrorConditions, alternative \in {NoAlternative, Alternative}}

\* test_eval_bang_operator: !c; for an operand of every type
BangProgram(operand) == Program(<<ExprStmt(PrefixOp("Bang", operand))>>)
BangPrograms == {BangProgram(operand) : operand \in Conditions}

\* "s" == "t"; and "s" != "t";
Strings == {<< >>, <<"a">>, <<"b">>, <<"a", "b">>}
StringEqualityProgram(s, operator, t) ==
    Program(<<ExprStmt(InfixOp(StringLit(Quoted(s)), operator, StringLit(Quoted(t))))>>)
StringEqualityPrograms ==
    {StringEqualityProgram(s, operator, t) : s \in Strings, operator \in {"Eq", "NotEq"}, t \in Strings}

\* fn(p1, .., pk) { body }(10, .., 10*n); with k parameters, n arguments and a body that
\* is one of the parameters or the literal 7
ParameterName(i) == <<"a", "b", "c", "d", "e", "f">>[i]
ArityProgram(k, n, body) ==
    Program(<<ExprStmt(Call(Fn([j \in 1..k |-> ParameterName(j)], <<ExprStmt(body)>>),
                            [j \in 1..n |-> Number(10 * j)]))>>)
ArityPrograms ==
    {ArityProgram(k, n, body) :
        k \in 0..MaxArgs, n \in 0..MaxArgs,
        body \in {Identifier(ParameterName(i)) : i \in 1..MaxArgs} \cup {Number(7)}}

\* A name read where it is bound locally, bound in an outer scope, bound as a parameter,
\* bound in both, or not bound at all; the name is a built-in's or x
\*   1: let n = 5; n;              2: let n = 5; fn() { n }();
\*   3: fn(n) { n }(6);            4: let n = 5; fn(n) { n }(6);
\*   5: n;                         6: fn() { n }();
ShadowNames == BUILTINS \cup {"x"}
ShadowShapes == 1..6
ShadowProgram(name, shape) ==
    LET bind == Let(name, Number(5))
        read == ExprStmt(Identifier(name))
        thunk == ExprStmt(Call(Fn(<< >>, <<read>>), << >>))
        apply == ExprStmt(Call(Fn(<<name>>, <<read>>), <<Number(6)>>))
    IN  CASE shape = 1 -> Program(<<bind, read>>)
          [] shape = 2 -> Program(<<bind, thunk>>)
          [] shape = 3 -> Program(<<apply>>)
          [] shape = 4 -> Program(<<bind, apply>>)
          [] shape = 5 -> Program(<<read>>)
          [] shape = 6 -> Program(<<thunk>>)
ShadowPrograms == {ShadowProgram(name, shape) : name \in ShadowNames, shape \in ShadowShapes}

\* c(); and c(1); for a callee c of every type that is neither Function nor Builtin
NotCallableTypes == OperandTypes \ {"FUNCTION", "BUILTIN"}
NotCallableProgram(type, arguments) == Program(<<ExprStmt(Call(OperandOfType(type), arguments))>>)
NotCallablePrograms ==
    {NotCallableProgram(type, arguments) : type \in NotCallableTypes, arguments \in {<< >>, <<Number(1)>>}}

\* A key that cannot be hashed, as the last key of a hash literal and as the index of a
\* hash:  {key: 7};  {1: 10, key: 7};  {}[key];  {1: 10}[key];
UnusableKeyTypes == OperandTypes \ {"INTEGER", "BOOLEAN", "STRING"}
UnusableKeys == {OperandOfType(type) : type \in UnusableKeyTypes} \cup {ArrayOfLen(0)}
PairValue == Number(7)
UnusableLiteralPrograms ==
    {Program(<<ExprStmt(HashLit(pairs \o <<<<key, PairValue>>>>))>>) :
        pairs \in {<< >>, <<<<Number(1), Number(10)>>>>}, key \in UnusableKeys}
UnusableIndexPrograms ==
    {Program(<<ExprStmt(Index(HashLit(pairs), key))>>) :
        pairs \in {<< >>, <<<<Number(1), Number(10)>>>>}, key \in UnusableKeys}
UnusableKeyPrograms == UnusableLiteralPrograms \cup UnusableIndexPrograms

\* Programs, blocks and function bodies that end with a let
\*   1: let a = w;                          2: let a = v; let a = w;
\*   3: if (true) { let a = v; let a = w; } 4: fn() { let a = v; let a = w; }();
\*   5: let a = v; fn() { let a = w; }();
LetResultShapes == 1..5
LetResultProgram(shape, v, w) ==
    LET first == Let("a", Lit(v))
        second == Let("a", Lit(w))
    IN  CASE shape = 1 -> Program(<<second>>)
          [] shape = 2 -> Program(<<first, second>>)
          [] shape = 3 -> Program(<<ExprStmt(IfThen(BooleanLit(TRUE), <<first, second>>))>>)
          [] shape = 4 -> Program(<<ExprStmt(Call(Fn(<< >>, <<first, second>>), << >>))>>)
          [] shape = 5 -> Program(<<first, ExprStmt(Call(Fn(<< >>, <<second>>), << >>))>>)
LetResultPrograms ==
    {LetResultProgram(shape, v, w) : shape \in LetResultShapes, v \in SmallInts, w \in SmallInts}

\* A let executed in the defining scope after the function literal was evaluated
\*   1: let f = fn() { x }; let x = v; f();
\*   2: let x = v; let f = fn() { x }; let x = w; f();
\*   3: let x = v; let f = fn(p) { let y = w; [x, p, y] }; let x = 7; let y = 8; f(5);
\*   4: fn() { let f = fn() { x }; let x = v; f() }();
\*   5: let f = fn() { f }; f();
SnapshotShapes == 1..5
SnapshotProgram(shape, v, w) ==
    LET reader == Let("f", Fn(<< >>, <<ExprStmt(Identifier("x"))>>))
        call == ExprStmt(Call(Identifier("f"), << >>))
    IN  CASE shape = 1 -> Program(<<reader, Let("x", Lit(v)), call>>)
          [] shape = 2 -> Program(<<Let("x", Lit(v)), reader, Let("x", Lit(w)), call>>)
          [] shape = 3 ->
                Program(<<Let("x", Lit(v)),
                          Let("f", Fn(<<"p">>, <<Let("y", Lit(w)),
                                                ExprStmt(ArrayLit(<<Identifier("x"), Identifier("p"), Identifier("y")>>))>>)),
                          Let("x", Number(7)), Let("y", Number(8)),
                          ExprStmt(Call(Identifier("f"), <<Number(5)>>))>>)
          [] shape = 4 -> Program(<<ExprStmt(Call(Fn(<< >>, <<reader, Let("x", Lit(v)), call>>), << >>))>>)
          [] shape = 5 -> Program(<<Let("f", Fn(<< >>, <<ExprStmt(Identifier("f"))>>)), call>>)
SnapshotPrograms ==
    {SnapshotProgram(shape, v, w) : shape \in SnapshotShapes, v \in SmallInts, w \in SmallInts}

\* Calls of a function whose parameter and lets have names of the caller's scope or of
\* the scope the function captured
\*   1: let a = v; let f = fn(p) { let a = w; let b = 3; p }; f(9);
\*   2: let a = v; let f = fn(p) { let a = w; let b = 3; p }; f(9); a;
\*   3: let k = v; let f = fn(k) { let c = k; c }; f(w); f(w);
\*   4: fn(q) { let g = fn(q) { let r = 1; q }; g(v); q }(w);
IsolationShapes == 1..4
IsolationProgram(shape, v, w) ==
    LET define == Let("f", Fn(<<"p">>, <<Let("a", Lit(w)), Let("b", Number(3)), ExprStmt(Identifier("p"))>>))
        call == ExprStmt(Call(Identifier("f"), <<Number(9)>>))
        again == ExprStmt(Call(Identifier("f"), <<Lit(w)>>))
    IN  CASE shape = 1 -> Program(<<Let("a", Lit(v)), define, call>>)
          [] shape = 2 -> Program(<<Let("a", Lit(v)), define, call, ExprStmt(Identifier("a"))>>)
          [] shape = 3 ->
                Program(<<Let("k", Lit(v)),
                          Let("f", Fn(<<"k">>, <<Let("c", Identifier("k")), ExprStmt(Identifier("c"))>>)),
                          again, again>>)
          [] shape = 4 ->
                Program(<<ExprStmt(Call(
                    Fn(<<"q">>, <<Let("g", Fn(<<"q">>, <<Let("r", Number(1)), ExprStmt(Identifier("q"))>>)),
                                  ExprStmt(Call(Identifier("g"), <<Lit(v)>>)),
                                  ExprStmt(Identifier("q"))>>),
                    <<Lit(w)>>))>>)
IsolationPrograms ==
    {IsolationProgram(shape, v, w) : shape \in IsolationShapes, v \in SmallInts, w \in SmallInts}

\* A let inside the block of an if-expression, read after the block
\*   1: if (true) { let a = v; }; a;        2: if (false) { 1 } else { let a = v; }; a;
\*   3: let a = v; if (true) { let a = w; }; a;
\*   4: fn() { if (true) { let a = v; }; a }();
\*   5: if (true) { if (true) { let a = v; } }; a;
BlockScopeShapes == 1..5
BlockScopeProgram(shape, v, w) ==
    LET read == ExprStmt(Identifier("a"))
        then == ExprStmt(IfThen(BooleanLit(TRUE), <<Let("a", Lit(v))>>))
    IN  CASE shape = 1 -> Program(<<then, read>>)
          [] shape = 2 ->
                Program(<<ExprStmt(IfElse(BooleanLit(FALSE), <<ExprStmt(Number(1))>>, <<Let("a", Lit(v))>>)), read>>)
          [] shape = 3 ->
                Program(<<Let("a", Lit(v)), ExprStmt(IfThen(BooleanLit(TRUE), <<Let("a", Lit(w))>>)), read>>)
          [] shape = 4 -> Program(<<ExprStmt(Call(Fn(<< >>, <<then, read>>), << >>))>>)
          [] shape = 5 -> Program(<<ExprStmt(IfThen(BooleanLit(TRUE), <<then>>)), read>>)
BlockScopePrograms ==
    {BlockScopeProgram(shape, v, w) : shape \in BlockScopeShapes, v \in SmallInts, w \in SmallInts}

Programs ==
    ErrorTests \cup ErrorFirst \cup RecursionPrograms \cup ClosurePrograms \cup WrapperPrograms
    \cup TopLevelPrograms \cup NestedReturnPrograms \cup FnReturnPrograms \cup ScopePrograms
    \cup IndexPrograms \cup PushPrograms \cup BuiltinPrograms \cup HashIndexPrograms \cup InfixPrograms \cup IfPrograms \cup ArithmeticPrograms \cup TerminationPrograms \cup IfErrorPrograms \cup BangPrograms \cup StringEqualityPrograms \cup ArityPrograms \cup ShadowPrograms \cup NotCallablePrograms \cup UnusableKeyPrograms \cup LetResultPrograms \cup SnapshotPrograms \cup IsolationPrograms \cup BlockScopePrograms

----------------------------------------------------------------------------
\* The expression parser (grammar::ExprParser of src/src/parser.rs), on the tokens of
\* the text.  The grammar is generated from a file that src/ does not hold: the levels
\* are those of the expression grammar of the specification, lowest first.

\* The level of a binary operator token: equality, comparison, additive, multiplicative
\* Mutant of BinaryLevel: + and - bind as tightly as * and /
BinaryLevel_additive_as_multiplicative(token) ==
    CASE token \in {"==", "!="} -> 1
      [] token \in {"<", ">"} -> 2
      [] token \in {"+", "-", "*", "/"} -> 4
      [] OTHER -> 0

BinaryLevel(token) ==
    CASE token \in {"==", "!="} -> 1
      [] token \in {"<", ">"} -> 2
      [] token \in {"+", "-"} -> 3
      [] token \in {"*", "/"} -> 4
      [] OTHER -> 0

\* The Opcode of an operator token
Opcode_of(token) ==
    CASE token = "*" -> "Mul"
      [] token = "/" -> "Div"
      [] token = "+" -> "Add"
      [] token = "-" -> "Sub"
      [] token = "!" -> "Bang"
      [] token = "==" -> "Eq"
      [] token = "!=" -> "NotEq"
      [] token = "<" -> "Lt"
      [] token = ">" -> "Gt"

Digits == {"0", "1", "2", "3", "4", "5", "6", "7", "8", "9"}

\* What a rule gives back: the tree and the tokens it did not read
Parsed(node, rest) == [node |-> node, rest |-> rest]

RECURSIVE parse_binary(_, _)
RECURSIVE binary_loop(_, _)
RECURSIVE parse_prefix(_)
RECURSIVE parse_arguments(_, _)
RECURSIVE postfix_loop(_)

\* Primary: integer, identifier, true, false, ( expr )
parse_primary(tokens) ==
    IF Head(tokens) = "("
    THEN Bind(parse_binary(1, Tail(tokens)), LAMBDA inner : Parsed(inner.node, Tail(inner.rest)))
    ELSE IF Head(tokens) \in Digits
    THEN Parsed(Number(CHOOSE n \in 0..9 : ToString(n) = Head(tokens)), Tail(tokens))
    ELSE IF Head(tokens) \in {"true", "false"}
    THEN Parsed(BooleanLit(Head(tokens) = "true"), Tail(tokens))
    ELSE Parsed(Identifier(Head(tokens)), Tail(tokens))

\* The arguments of a call, after its ( or a comma
parse_arguments(tokens, arguments) ==
    IF Head(tokens) = ")" THEN Parsed(arguments, Tail(tokens))
    ELSE Bind(parse_binary(1, tokens), LAMBDA argument :
             IF Head(argument.rest) = ","
             THEN parse_arguments(Tail(argument.rest), Append(arguments, argument.node))
             ELSE parse_arguments(argument.rest, Append(arguments, argument.node)))

\* Postfix: call f(args), left-associative
postfix_loop(callee) ==
    IF callee.rest # << >> /\ Head(callee.rest) = "("
    THEN Bind(parse_arguments(Tail(callee.rest), << >>), LAMBDA arguments :
             postfix_loop(Parsed(Call(callee.node, arguments.node), arguments.rest)))
    ELSE callee

\* Prefix: unary -, +, !, right-associative
parse_prefix(tokens) ==
    IF Head(tokens) \in {"-", "+", "!"}
    THEN Bind(parse_prefix(Tail(tokens)), LAMBDA right :
             Parsed(PrefixOp(Opcode_of(Head(tokens)), right.node), right.rest))
    ELSE postfix_loop(parse_primary(tokens))

\* The operators of one level after a left operand, left-associative
binary_loop(level, left) ==
    IF left.rest # << >> /\ BinaryLevel(Head(left.rest)) = level
    THEN Bind(parse_binary(level + 1, Tail(left.rest)), LAMBDA right :
             binary_loop(level, Parsed(InfixOp(left.node, Opcode_of(Head(left.rest)), right.node), right.rest)))
    ELSE left

\* The expressions of a level and of the levels above it
parse_binary(level, tokens) ==
    IF level > 4 THEN parse_prefix(tokens)
    ELSE binary_loop(level, parse_binary(level + 1, tokens))

\* grammar::ExprParser::new().parse(text).unwrap()
ExprParser_parse(tokens) == parse_binary(1, tokens).node

----------------------------------------------------------------------------
\* The host: one test of src/src/evaluator.rs, or one line of a REPL

Init ==
    /\ pc = "start"
    /\ env = NoOuter
    /\ program = Program(<< >>)
    /\ results = Null
    /\ trace = << >>
    /\ text = << >>
    /\ overflow_checks \in BOOLEAN

\* let mut env = Environment::new();
NewEnvironment ==
    /\ pc = "start"
    /\ env' = Environment_new
    /\ pc' = "prompt"
    /\ UNCHANGED <<program, results, trace, text, overflow_checks>>

\* let program = parse_program(text).unwrap();
ParseProgram ==
    /\ pc = "prompt"
    /\ \E p \in Programs : program' = p
    /\ pc' = "eval"
    /\ UNCHANGED <<env, results, trace, text, overflow_checks>>

\* let results = eval_program(&program, &mut env): it returns, or the thread panics
EvalProgram ==
    /\ pc = "eval"
    /\ LET r == eval_program(program, env)
       IN  /\ trace' = r.host.trace
           /\ IF r.host.panicked
              THEN /\ pc' = "aborted"
                   /\ results' = Panic(r.host.panic)
                   /\ env' = env
              ELSE /\ pc' = "done"
                   /\ results' = r.value
                   /\ env' = r.env
    /\ UNCHANGED <<program, text, overflow_checks>>

Next == NewEnvironment \/ ParseProgram \/ EvalProgram

Spec == Init /\ [][Next]_vars

----------------------------------------------------------------------------
\* The host as a session: one Environment, one eval_program call per line read
\* (the loop of src/src/main.rs, with the Environment of eval_program's signature)

\* The lines of the session: lets at the top level, in an if-block, in a function body and
\* of a built-in's name; a let whose value is an Error; and the identifiers on their own
SessionNames == {"a", "b", "c", "d", "len", "foobar"}
SessionLines ==
    {Program(<<Let("a", Number(v))>>) : v \in 1..2}
    \cup {Program(<<ExprStmt(Identifier(name))>>) : name \in SessionNames}
    \cup { Program(<<Let("b", InfixOp(Identifier("a"), "Add", Number(1)))>>),
           Program(<<ExprStmt(IfThen(BooleanLit(TRUE), <<Let("c", Number(3))>>))>>),
           Program(<<Let("f", Fn(<< >>, <<Let("d", Number(4)), ExprStmt(Identifier("d"))>>)),
                     ExprStmt(Call(Identifier("f"), << >>))>>),
           Program(<<Let("len", Number(5))>>),
           Program(<<Let("c", Identifier("foobar"))>>) }

\* read_line and parse_program.  A function is bound once in a session: it holds a copy
\* of the environment, so that every rebinding would nest the copies one deeper.
ReadLine ==
    /\ pc = "prompt"
    /\ \E p \in SessionLines :
          /\ p.statements[1].kind = "Let" /\ p.statements[1].value.kind = "FuncLit"
                => p.statements[1].name \notin DOMAIN env.store
          /\ program' = p
    /\ pc' = "eval"
    /\ UNCHANGED <<env, results, trace, text, overflow_checks>>

\* println!("{}", obj.inspect()), and round the loop
PrintResult ==
    /\ pc = "done"
    /\ pc' = "prompt"
    /\ UNCHANGED <<env, program, results, trace, text, overflow_checks>>

SessionNext == NewEnvironment \/ ReadLine \/ EvalProgram \/ PrintResult

Session == Init /\ [][SessionNext]_vars

----------------------------------------------------------------------------
\* The parser on its own: one test of src/src/parser.rs

\* The i-th operand of a generated text
OperandName(i) == <<"a", "b", "c", "d", "e", "f">>[i]
Prefixes == {<< >>, <<"-">>, <<"!">>}
BinaryTokens == {"==", "!=", "<", ">", "+", "-", "*", "/"}
\* The texts  p1 x1 o1 p2 x2 .. ok p(k+1) x(k+1)  of k binary operators, each operand with
\* or without a prefix operator
RECURSIVE OperatorTexts(_)
OperatorTexts(k) ==
    IF k = 0 THEN {prefix \o <<OperandName(1)>> : prefix \in Prefixes}
    ELSE {shorter \o <<operator>> \o prefix \o <<OperandName(k + 1)>> :
             shorter \in OperatorTexts(k - 1), operator \in BinaryTokens, prefix \in Prefixes}

\* test_operator_precedence, test_infix_expr, test_prefix_expr: the text and the Debug
\* form expected of its tree
ParserTests ==
    { [text |-> <<"-", "a", "*", "b">>,
       debug |-> <<"(", "(", "-", "a", ")", " ", "*", " ", "b", ")">>],
      [text |-> <<"a", "+", "b", "*", "c">>,
       debug |-> <<"(", "a", " ", "+", " ", "(", "b", " ", "*", " ", "c", ")", ")">>],
      [text |-> <<"a", "+", "b", "+", "c">>,
       debug |-> <<"(", "(", "a", " ", "+", " ", "b", ")", " ", "+", " ", "c", ")">>],
      [text |-> <<"5", ">", "4", "==", "3", "<", "4">>,
       debug |-> <<"(", "(", "5", " ", ">", " ", "4", ")", " ", "==", " ",
                   "(", "3", " ", "<", " ", "4", ")", ")">>],
      [text |-> <<"(", "a", "+", "b", ")", "*", "c">>,
       debug |-> <<"(", "(", "a", " ", "+", " ", "b", ")", " ", "*", " ", "c", ")">>],
      [text |-> <<"!", "!", "-", "a">>,
       debug |-> <<"(", "!", "(", "!", "(", "-", "a", ")", ")", ")">>],
      [text |-> <<"+", "1", "+", "2">>,
       debug |-> <<"(", "(", "+", "1", ")", " ", "+", " ", "2", ")">>],
      [text |-> <<"a", "+", "b", "*", "c", "+", "d", "/", "e", "-", "f">>,
       debug |-> <<"(", "(", "(", "a", " ", "+", " ", "(", "b", " ", "*", " ", "c", ")", ")", " ", "+", " ",
                   "(", "d", " ", "/", " ", "e", ")", ")", " ", "-", " ", "f", ")">>],
      [text |-> <<"a", "+", "add", "(", "b", "*", "c", ")", "+", "d">>,
       debug |-> <<"(", "(", "a", " ", "+", " ", "add", "(", "(", "b", " ", "*", " ", "c", ")", ")", ")",
                   " ", "+", " ", "d", ")">>] }

ExprTexts == UNION {OperatorTexts(k) : k \in 0..MaxOps} \cup {test.text : test \in ParserTests}

\* the text of the test
ReadExpr ==
    /\ pc = "start"
    /\ text' \in ExprTexts
    /\ pc' = "read"
    /\ UNCHANGED <<env, program, results, trace, overflow_checks>>

\* let expr = grammar::ExprParser::new().parse(text).unwrap();
ParseExpr ==
    /\ pc = "read"
    /\ program' = Program(<<ExprStmt(ExprParser_parse(text))>>)
    /\ pc' = "parsed"
    /\ UNCHANGED <<env, results, trace, text, overflow_checks>>

ParserNext == ReadExpr \/ ParseExpr

Parser == Init /\ [][ParserNext]_vars

----------------------------------------------------------------------------
\* Reading the history

Finished == pc \in {"done", "aborted"}

IsExit(i) == trace[i].ev = "exit"
IsEnter(i) == trace[i].ev = "enter"
ExitsWith(i, type) == IsExit(i) /\ trace[i].value.type = type

\* The events of the top-level statements
TopEnters == SelectSeq(trace, LAMBDA event : event.ev = "enter" /\ event.level = 1)
TopExits == SelectSeq(trace, LAMBDA event : event.ev = "exit" /\ event.level = 1)

\* The position of the last entry at a level before position i (0 if none)
LastEnter(level, i) ==
    LET js == {j \in 1..(i - 1) : IsEnter(j) /\ trace[j].level = level}
    IN  IF js = {} THEN 0 ELSE CHOOSE j \in js : \A k \in js : k <= j

\* The exit at position i is that of a node evaluated directly by a Block
InBlock(i) ==
    /\ trace[i].level > 1
    /\ LastEnter(trace[i].level - 1, i) > 0
    /\ trace[LastEnter(trace[i].level - 1, i)].node.kind = "Block"

\* The exit at position i is that of the body of a function being applied
IsBodyExit(i) ==
    /\ LastEnter(trace[i].level, i) > 1
    /\ trace[LastEnter(trace[i].level, i) - 1].ev = "apply"

IsWrapper(object) == object.type \in {"RETURN_VALUE", "ERROR"}
Bindings(e) == {e.store[name] : name \in DOMAIN e.store}
Elements(seq) == {seq[i] : i \in 1..Len(seq)}

----------------------------------------------------------------------------
\* The claims

\* C1: once a sub-expression or statement has evaluated to an Error, no later
\* node is evaluated, and eval_program returns exactly that Error.
C1_ErrorShortCircuit ==
    pc = "done" =>
        \A i \in 1..Len(trace) :
            ExitsWith(i, "ERROR") =>
                /\ \A j \in (i + 1)..Len(trace) : ~IsEnter(j)
                /\ results = trace[i].value

\* C2: the recursive map/iter program of scenario 6 evaluates to [2, 4, 6].
C2_RecursiveMap ==
    (Finished /\ program = Scenario6) =>
        /\ pc = "done"
        /\ results = Array(<<Integer(2), Integer(4), Integer(6)>>)

\* C3: a function returned from a call of an enclosing function still
\* resolves that function's parameters and let-bindings: newAdder(x)(y),
\* directly or through a let, is x + y whenever x + y is an i64, and beyond
\* that range it is what the expression x + y itself gives (the wrapped sum,
\* or the panic of the build with overflow checks); scale(x)(y), whose inner
\* function reads the let-binding k = x * 2, is 2x + y.
C3_ClosureCapture ==
    /\ \A x \in ClosureInts, y \in ClosureInts :
          (Finished /\ program \in {ClosureProgram(x, y), ClosureLetProgram(x, y)}) =>
              /\ (I64_MIN <= x + y /\ x + y <= I64_MAX) => (pc = "done" /\ results = Integer(x + y))
              /\ LET sum == eval_program(SumProgram(x, y), Environment_new)
                 IN  /\ (pc = "aborted") = sum.host.panicked
                     /\ (pc = "done") => results = sum.value
    /\ \A x \in SmallInts, y \in SmallInts :
          (Finished /\ program = ClosureBindingProgram(x, y)) =>
              pc = "done" /\ results = Integer(2 * x + y)

C3_Witness ==
    /\ pc = "done"
    /\ program = ClosureBindingProgram(2, -1)
    /\ results = Integer(3)
    /\ \E i \in 1..Len(trace) :
          /\ trace[i].ev = "apply"
          /\ "y" \in DOMAIN trace[i].env.store
          /\ "k" \in DOMAIN trace[i].env.outer.store

\* C4: no environment binding, array element, hash key or value, or function
\* argument is ever a ReturnValue or an Error, and eval_program never
\* returns a ReturnValue.
C4_WrappersNotObservable ==
    pc = "done" =>
        /\ results.type # "RETURN_VALUE"
        /\ \A object \in Bindings(env) : ~IsWrapper(object)
        /\ \A i \in 1..Len(trace) :
              /\ trace[i].ev = "apply" =>
                    /\ \A object \in Elements(trace[i].args) : ~IsWrapper(object)
                    /\ \A object \in Bindings(trace[i].env) : ~IsWrapper(object)
              /\ ExitsWith(i, "ARRAY") =>
                    \A object \in Elements(trace[i].value.elements) : ~IsWrapper(object)
              /\ ExitsWith(i, "HASH") =>
                    \A pair \in Elements(trace[i].value.pairs) : ~IsWrapper(pair.key) /\ ~IsWrapper(pair.value)

\* C5: the top-level statements are evaluated in order; when one evaluates to
\* ReturnValue(v), it is the last node evaluated and eval_program returns v;
\* with no ReturnValue and no Error every statement is evaluated and the
\* result is the value of the last one, or Null for the empty program.
C5_ProgramReturn ==
    pc = "done" =>
        LET n == Len(TopEnters)
        IN  /\ n <= Len(program.statements)
            /\ Len(TopExits) = n
            /\ \A i \in 1..n : TopEnters[i].node = program.statements[i]
            /\ \A i \in 1..n :
                  TopExits[i].value.type = "RETURN_VALUE" =>
                      /\ i = n
                      /\ trace[Len(trace)] = TopExits[i]
                      /\ results = TopExits[i].value.rv
            /\ (\A i \in 1..n : ~IsWrapper(TopExits[i].value)) =>
                  /\ n = Len(program.statements)
                  /\ results = IF n = 0 THEN Null ELSE TopExits[n].value

C5_Witness ==
    /\ pc = "done"
    /\ program = TopReturnProgram(1, 2)
    /\ results = Integer(2)
    /\ Len(TopEnters) = 2
    /\ "after" \notin DOMAIN env.store

\* C6: a Block whose statement evaluates to a ReturnValue returns that very
\* wrapper at once; a `return v` under any number of nested if-blocks at
\* top level makes the program's result v, and nothing is evaluated after it.
C6_ReturnTunnelling ==
    pc = "done" =>
        /\ \A i \in 1..Len(trace) :
              (ExitsWith(i, "RETURN_VALUE") /\ InBlock(i)) =>
                  /\ i < Len(trace)
                  /\ trace[i + 1] = [ev |-> "exit", level |-> trace[i].level - 1, value |-> trace[i].value]
        /\ \A d \in 0..MaxNest, v \in SmallInts :
              program \in {NestedReturnProgram(d, v), NestedElseProgram(d, v)} =>
                  /\ results = Integer(v)
                  /\ DOMAIN env.store = {}
                  /\ \A i \in 1..Len(trace) :
                        ExitsWith(i, "RETURN_VALUE") =>
                            \A j \in (i + 1)..Len(trace) : IsExit(j) /\ trace[j].value = trace[i].value

C6_Witness ==
    /\ pc = "done"
    /\ program = NestedReturnProgram(MaxNest, 1)
    /\ results = Integer(1)
    /\ \E i \in 1..Len(trace) : ExitsWith(i, "RETURN_VALUE") /\ InBlock(i) /\ trace[i].level > 3 * MaxNest

\* C7: a `return` in a function body ends only that call: the call yields the
\* returned value itself, not the wrapper, the rest of the body is skipped and
\* the caller goes on (f(v); 9; is 9, f(v) + 1 is v + 1).
C7_ReturnEndsCall ==
    /\ pc = "done" =>
          \A i \in 1..Len(trace) :
              (ExitsWith(i, "RETURN_VALUE") /\ IsBodyExit(i)) =>
                  /\ i < Len(trace)
                  /\ trace[i + 1] = [ev |-> "exit", level |-> trace[i].level - 1, value |-> trace[i].value.rv]
    /\ \A v \in SmallInts :
          /\ (Finished /\ program = FnReturnThenProgram(v)) =>
                /\ pc = "done"
                /\ results = Integer(9)
                /\ \E i \in 1..Len(trace) : trace[i] = [ev |-> "exit", level |-> 2, value |-> Integer(v)]
                /\ \A i \in 1..Len(trace) : IsEnter(i) => trace[i].node # Let("inner", Number(1))
          /\ (Finished /\ program = FnReturnOperandProgram(v)) =>
                pc = "done" /\ results = Integer(v + 1)
          /\ (Finished /\ program = FnNestedReturnProgram(v)) =>
                /\ pc = "done"
                /\ results = Integer(2 * v)
                /\ env.store["r"] = Integer(v)
                /\ \A i \in 1..Len(trace) : IsEnter(i) => trace[i].node # ExprStmt(Number(77))

C7_Witness ==
    /\ pc = "done"
    /\ program = FnReturnThenProgram(2)
    /\ results = Integer(9)
    /\ \E i \in 1..Len(trace) : ExitsWith(i, "RETURN_VALUE") /\ IsBodyExit(i)

\* C8: the environment a function body runs in has the function's captured
\* environment as its outer scope; an identifier bound only in the caller's
\* scope (as a parameter or by a let) is not found from the callee's body,
\* and one bound where the callee was defined keeps that binding.
C8_LexicalScoping ==
    /\ \A i \in 1..Len(trace) :
          trace[i].ev = "apply" => trace[i].env.outer = trace[i].function.env
    /\ \A v \in SmallInts :
          /\ (Finished /\ program \in {CallerScopeProgram(v), CallerLetProgram(v)}) =>
                pc = "done" /\ results = Error(<<"identifier not found: ", "z">>)
          /\ (Finished /\ program = DefinerScopeProgram(v)) =>
                pc = "done" /\ results = Integer(100)

C8_Witness ==
    /\ pc = "done"
    /\ program = CallerScopeProgram(2)
    /\ results = Error(<<"identifier not found: ", "z">>)
    /\ \E i \in 1..Len(trace) :
          /\ trace[i].ev = "apply"
          /\ "z" \in DOMAIN trace[i].env.store
          /\ trace[i].env.store["z"] = Integer(2)

\* C9: a[i] is the element at zero-based position i when 0 <= i < len(a), and
\* Null, with no Error and no failure of the host, when i is negative,
\* i >= len(a) or a is empty.
C9_ArrayIndex ==
    \A n \in 0..MaxLen, i \in -2..(MaxLen + 1) :
        (Finished /\ program = IndexProgram(n, i)) =>
            /\ pc = "done"
            /\ results = IF 0 <= i /\ i < n THEN Integer(10 * (i + 1)) ELSE Null

\* C10: push(a, x) returns a with x appended and leaves a as it was: after
\* the call a is still bound to the same array, and len(a) and a[i] give what
\* they gave before (a[i] of the same array read without any push: the same
\* value, or the same failure of the host).
C10_PushLeavesArray ==
    \A n \in 0..MaxLen, x \in SmallInts :
        /\ (Finished /\ program = PushProgram(n, x)) =>
              /\ pc = "done"
              /\ results = Array(Append(ElementsOfLen(n), Integer(x)))
              /\ env.store["a"] = Array(ElementsOfLen(n))
        /\ (Finished /\ program = PushLenProgram(n, x)) =>
              /\ pc = "done"
              /\ results = Integer(n)
              /\ env.store["a"] = Array(ElementsOfLen(n))
        /\ \A i \in 0..MaxLen :
              (Finished /\ program = PushIndexProgram(n, x, i)) =>
                  LET before == eval_program(IndexProgram(n, i), Environment_new)
                  IN  /\ (pc = "aborted") = before.host.panicked
                      /\ (pc = "done") =>
                            /\ results = before.value
                            /\ results = IF i < n THEN Integer(10 * (i + 1)) ELSE Null
                            /\ env.store["a"] = Array(ElementsOfLen(n))
                            /\ env.store["b"] = Array(Append(ElementsOfLen(n), Integer(x)))

C10_Witness ==
    /\ pc = "done"
    /\ program = PushIndexProgram(2, 1, 1)
    /\ results = Integer(20)
    /\ env.store["b"] = Array(<<Integer(10), Integer(20), Integer(1)>>)

\* C11: a call of a built-in function returns a value for every argument list, the empty
\* one included, never a host failure; with the wrong number of arguments the value is
\* Error "wrong number of arguments. got=<n>, want=<m>" (m = 2 for push, 1 otherwise),
\* whatever the types of the arguments.
BuiltinWant(name) == IF name = "push" THEN 2 ELSE 1
ValueTypes ==
    {"INTEGER", "BOOLEAN", "NULL", "STRING", "RETURN_VALUE", "ERROR", "FUNCTION", "BUILTIN", "ARRAY", "HASH"}
C11_BuiltinsTotal ==
    (Finished /\ program \in BuiltinPrograms) =>
        LET call == program.statements[1].expression
            n == Len(call.arguments)
            want == BuiltinWant(call.function.name)
        IN  /\ pc = "done"
            /\ results.type \in ValueTypes
            /\ n # want =>
                  results = Error(<<"wrong number of arguments. got=", ToString(n),
                                    IF want = 2 THEN ", want=2" ELSE ", want=1">>)

\* first(1, "ab"): two arguments, the first of them not an array
C11_Witness ==
    /\ pc = "done"
    /\ program = BuiltinProgram("first", <<Lit(1), StringLit(Quoted(<<"a", "b">>))>>)
    /\ results = Error(<<"wrong number of arguments. got=", "2", ", want=1">>)

\* C12: indexing a hash with a hashable key (Integer, Boolean, String) gives the value
\* stored under the key of the same type tag and content (the last such pair of the
\* literal), and Null when there is none, the empty hash included.
KeyOfExpr(expr) == CHOOSE key \in KeyObjects : KeyExpr(key) = expr
TypeOfOperand(expr) == CHOOSE type \in OperandTypes : OperandOfType(type) = expr
C13_TypeMismatch ==
    (Finished /\ program \in InfixPrograms) =>
        LET infix == program.statements[1].expression
            ltype == TypeOfOperand(infix.left)
            rtype == TypeOfOperand(infix.right)
        IN  ltype # rtype =>
                /\ pc = "done"
                /\ results = Error(<<"type mismatch: ", ltype, " ", Opcode_as_str(infix.operator), " ", rtype>>)

\* true + 1: + is unknown for a Boolean, and the mismatch is what is reported
C13_Witness ==
    /\ pc = "done"
    /\ program = InfixProgram("BOOLEAN", "Add", "INTEGER")
    /\ results = Error(<<"type mismatch: ", "BOOLEAN", " ", "+", " ", "INTEGER">>)

\* C14: in an if-expression the consequence is evaluated iff the value of the condition is
\* neither Boolean(false) nor Null (the Integer 0 selects the consequence); otherwise the
\* alternative is evaluated if there is one and the result is Null if there is none; the
\* two branches are never both evaluated.  (A condition that is an Error: see C19.)
Entries(node) == {i \in 1..Len(trace) : IsEnter(i) /\ trace[i].node = node}
ConditionValue == trace[CHOOSE i \in 1..Len(trace) : IsExit(i) /\ trace[i].level = 3
                                     /\ \A j \in 1..(i - 1) : ~(IsExit(j) /\ trace[j].level = 3)].value
C14_Truthiness ==
    (Finished /\ program \in IfPrograms) =>
        LET alternative == program.statements[1].expression.alternative
            truthy == ConditionValue \notin {Boolean(FALSE), Null}
        IN  /\ pc = "done"
            /\ ~is_error(ConditionValue)
            /\ Cardinality(Entries(Consequence)) = IF truthy THEN 1 ELSE 0
            /\ Cardinality(Entries(Alternative)) = IF ~truthy /\ alternative # NoAlternative THEN 1 ELSE 0
            /\ results = IF truthy THEN Integer(10)
                         ELSE IF alternative # NoAlternative THEN Integer(20) ELSE Null

\* if (0) { 10; } else { 20; };
C14_Witness ==
    /\ pc = "done"
    /\ program = IfProgram(Number(0), Alternative)
    /\ ConditionValue = Integer(0)
    /\ Entries(Consequence) # {} /\ Entries(Alternative) = {}
    /\ results = Integer(10)

\* The exit that matches the entry at position i of the history
ExitOf(i) == CHOOSE k \in (i + 1)..Len(trace) :
                 /\ IsExit(k) /\ trace[k].level = trace[i].level
                 /\ \A j \in (i + 1)..(k - 1) : ~(IsExit(j) /\ trace[j].level = trace[i].level)
\* The let statements that were executed: entered, and left with their name bound
ExecutedLets == {i \in 1..Len(trace) : IsEnter(i) /\ trace[i].node.kind = "Let" /\ ~is_error(trace[ExitOf(i)].value)}
\* Position i of the history lies in the body of a function being applied
InCall(i) ==
    \E j \in 1..(i - 1) :
        /\ trace[j].ev = "apply"
        /\ \A k \in (j + 1)..(i - 1) : ~(IsExit(k) /\ trace[k].level = trace[j].level + 1)

\* C15 as stated: every let executed during an eval_program call is still present in the
\* passed Environment when the call has returned.
C15_EveryLetPersists ==
    pc = "done" => \A i \in ExecutedLets : trace[i].node.name \in DOMAIN env.store

\* C15, amended: every let executed outside the body of a function (at the top level of the
\* program or in a block there) is in the passed Environment when the call has returned, with
\* the value of the last such let of its name; the host hands the same Environment to the
\* next call, and there an identifier that is not the name of a built-in evaluates to the
\* value the Environment holds for it.
C15_LetsPersist ==
    /\ [](pc = "done" =>
            \A i \in ExecutedLets :
                InCall(i) \/
                    /\ trace[i].node.name \in DOMAIN env.store
                    /\ \/ env.store[trace[i].node.name] = trace[ExitOf(i) - 1].value
                       \/ \E j \in ExecutedLets : j > i /\ ~InCall(j) /\ trace[j].node.name = trace[i].node.name)
    /\ [][/\ pc \in {"prompt", "done"} => env' = env
          /\ pc = "eval" =>
                \A name \in DOMAIN env.store \ BUILTINS :
                    program = Program(<<ExprStmt(Identifier(name))>>) =>
                        (pc' = "done" /\ results' = env.store[name] /\ env' = env)]_vars

\* c; read on a line of its own after if (true) { let c = 3; }; on an earlier line
C15_Witness ==
    /\ pc = "done"
    /\ program = Program(<<ExprStmt(Identifier("c"))>>)
    /\ results = Integer(3)

\* The tokens of a tree in the order of the text, without parentheses
RECURSIVE Yield(_)
Yield(node) ==
    CASE node.kind = "InfixOp" -> Yield(node.left) \o <<Opcode_as_str(node.operator)>> \o Yield(node.right)
      [] node.kind = "PrefixOp" -> <<Opcode_as_str(node.operator)>> \o Yield(node.right)
      [] node.kind = "Identifier" -> <<node.name>>
      [] node.kind = "Number" -> <<ToString(node.n)>>
      [] node.kind = "Boolean" -> <<IF node.b THEN "true" ELSE "false">>
\* The level at which a tree binds: that of its operator, above all of them for the rest
LevelOfTree(node) == IF node.kind = "InfixOp" THEN BinaryLevel(Opcode_as_str(node.operator)) ELSE 5
\* Every operand of a prefix operator binds tighter than any binary operator, every left
\* operand of a binary operator at least as tightly as the operator, every right operand tighter
RECURSIVE Grouped(_)
Grouped(node) ==
    CASE node.kind = "InfixOp" ->
            /\ LevelOfTree(node.left) >= LevelOfTree(node)
            /\ LevelOfTree(node.right) > LevelOfTree(node)
            /\ Grouped(node.left) /\ Grouped(node.right)
      [] node.kind = "PrefixOp" -> LevelOfTree(node.right) = 5 /\ Grouped(node.right)
      [] OTHER -> TRUE

\* C16: the parser groups prefix operators tighter than * /, these tighter than + -, then
\* < >, then == !=, and binary operators of one level to the left: the tree of a text
\* without parentheses has the tokens of the text in their order and is grouped by these
\* levels, and the texts of the parser's tests get the trees the tests expect.
C16_Precedence ==
    pc = "parsed" =>
        LET expr == program.statements[1].expression
        IN  /\ (\A i \in 1..Len(text) : text[i] \notin {"(", ")"}) => (Yield(expr) = text /\ Grouped(expr))
            /\ \A test \in ParserTests : text = test.text => Debug_fmt(expr) = test.debug

\* 5 > 4 == 3 < 4 parsed as ((5 > 4) == (3 < 4))
C16_Witness ==
    /\ pc = "parsed"
    /\ text = <<"5", ">", "4", "==", "3", "<", "4">>
    /\ program = Program(<<ExprStmt(InfixOp(InfixOp(Number(5), "Gt", Number(4)), "Eq",
                                             InfixOp(Number(3), "Lt", Number(4))))>>)

\* C17: errors are values, never failures of the host: eval_program returns a value for
\* every program; in particular + - * with a result outside i64, unary minus on i64::MIN
\* and the index of an empty array do not abort the host.
C17_ErrorsAreValues ==
    (Finished /\ program \in ArithmeticPrograms \cup IndexPrograms) =>
        /\ pc = "done"
        /\ results.type \in ValueTypes

\* C18: every eval_program call runs to completion and returns a value, the programs that
\* pass a function to itself included (let f = fn(g) { g(g); }; f(f);).
C18_Termination ==
    (Finished /\ program \in TerminationPrograms \cup RecursionPrograms) =>
        /\ pc = "done"
        /\ results.type \in ValueTypes

\* C19: when the condition of an if-expression evaluates to an Error, the if-expression
\* evaluates to that Error and neither the consequence nor the alternative is evaluated.
C19_IfConditionError ==
    (Finished /\ program \in IfErrorPrograms) =>
        /\ pc = "done"
        /\ is_error(ConditionValue)
        /\ results = ConditionValue
        /\ Entries(Consequence) = {} /\ Entries(Alternative) = {}

\* C20: !v is Boolean(false) when v is Boolean(true), Boolean(true) when v is Boolean(false)
\* or Null, and Boolean(false) for every other value: !v is Boolean(not truthy(v)).
C20_Bang ==
    (Finished /\ program \in BangPrograms) =>
        /\ pc = "done"
        /\ results = Boolean(ConditionValue \in {Boolean(FALSE), Null})
        /\ results = Boolean(~is_truthy(ConditionValue))

\* C21: equality on strings is componentwise: "s" == "t" evaluates to Boolean(s = t) and
\* "s" != "t" to Boolean(s # t), not to an Error.
C21_StringEquality ==
    \A s \in Strings, t \in Strings :
        /\ (Finished /\ program = StringEqualityProgram(s, "Eq", t)) =>
                (pc = "done" /\ results = Boolean(s = t))
        /\ (Finished /\ program = StringEqualityProgram(s, "NotEq", t)) =>
                (pc = "done" /\ results = Boolean(s # t))

\* C22: for two operands of the same type other than Integer, String and Boolean (Null,
\* Array, Hash, Function, Builtin), == and != evaluate to a Boolean by structural
\* equality of the two values, and every other operator evaluates to
\* Error "unknown operator: <TYPE> <op> <TYPE>".
StructuralTypes == {"NULL", "ARRAY", "HASH", "FUNCTION", "BUILTIN"}
OperandValues == [left |-> trace[ExitOf(3)].value, right |-> trace[Len(trace) - 2].value]
C22_StructuralEquality ==
    (Finished /\ program \in InfixPrograms) =>
        LET infix == program.statements[1].expression
            type == TypeOfOperand(infix.left)
        IN  (type = TypeOfOperand(infix.right) /\ type \in StructuralTypes) =>
                /\ pc = "done"
                /\ object_type(OperandValues.left) = type
                /\ object_type(OperandValues.right) = type
                /\ results = CASE infix.operator = "Eq" -> Boolean(OperandValues.left = OperandValues.right)
                               [] infix.operator = "NotEq" -> Boolean(OperandValues.left # OperandValues.right)
                               [] OTHER -> Error(<<"unknown operator: ", type, " ", Opcode_as_str(infix.operator), " ", type>>)

\* C23: a call whose argument count differs from the parameter count is not rejected:
\* parameters are bound to arguments by position, surplus arguments are ignored, and a
\* parameter without an argument stays unbound, so that the body's reference to it
\* evaluates to Error "identifier not found: <name>".
Applications == {i \in 1..Len(trace) : trace[i].ev = "apply"}
C23_ArityMismatch ==
    (Finished /\ program \in ArityPrograms) =>
        LET call == program.statements[1].expression
            k == Len(call.function.parameters)
            n == Len(call.arguments)
            bound == IF k < n THEN k ELSE n
            body == call.function.body.statements[1].expression
        IN  /\ pc = "done"
            /\ Cardinality(Applications) = 1
            /\ \A i \in Applications :
                    /\ trace[i].args = [j \in 1..n |-> Integer(10 * j)]
                    /\ DOMAIN trace[i].env.store = {ParameterName(j) : j \in 1..bound}
                    /\ \A j \in 1..bound : trace[i].env.store[ParameterName(j)] = Integer(10 * j)
            /\ results = IF body.kind # "Identifier" THEN Integer(7)
                         ELSE IF \E j \in 1..bound : body.name = ParameterName(j)
                         THEN Integer(10 * (CHOOSE j \in 1..bound : body.name = ParameterName(j)))
                         ELSE Error(<<"identifier not found: ", body.name>>)

\* fn(a, b) { b }(10): b has no argument, the call is made and b is not found
C23_Witness ==
    /\ pc = "done"
    /\ program = ArityProgram(2, 1, Identifier("b"))
    /\ \E i \in Applications : DOMAIN trace[i].env.store = {"a"}
    /\ results = Error(<<"identifier not found: ", "b">>)

\* C24: an identifier is looked up in the built-in registry before the environment: len,
\* first, last, rest and push evaluate to the Builtin whatever the environment binds the
\* name to, locally or in an outer scope; any other identifier evaluates to its nearest
\* binding, walking outward, or to Error "identifier not found: <name>" if there is none.
ShadowOf(prog) ==
    CHOOSE s \in ShadowNames \X ShadowShapes : ShadowProgram(s[1], s[2]) = prog
C24_BuiltinsFirst ==
    (Finished /\ program \in ShadowPrograms) =>
        LET name == ShadowOf(program)[1]
            shape == ShadowOf(program)[2]
        IN  /\ pc = "done"
            /\ shape \in {1, 2, 4} => Environment_get(env, name) = Some(Integer(5))
            /\ shape \in {3, 4} =>
                    \E i \in Applications : Environment_get(trace[i].env, name) = Some(Integer(6))
            /\ results = IF name \in BUILTINS THEN Builtin(name)
                         ELSE CASE shape \in {1, 2} -> Integer(5)
                                [] shape \in {3, 4} -> Integer(6)
                                [] OTHER -> Error(<<"identifier not found: ", name>>)

\* let len = 5; fn(len) { len }(6): len is bound in both scopes and is the built-in
C24_Witness ==
    /\ pc = "done"
    /\ program = ShadowProgram("len", 4)
    /\ Environment_get(env, "len") = Some(Integer(5))
    /\ \E i \in Applications : Environment_get(trace[i].env, "len") = Some(Integer(6))
    /\ results = Builtin("len")

\* C25: calling a value that is neither a Function nor a Builtin evaluates to the Error
\* whose message is exactly "not a function: " followed by the bare type tag of the
\* value (not a function: INTEGER), without quotation marks.
C25_NotAFunction ==
    (Finished /\ program \in NotCallablePrograms) =>
        /\ pc = "done"
        /\ results = Error(<<"not a function: ", TypeOfOperand(program.statements[1].expression.function)>>)

\* C26: a key that is not an Integer, a Boolean or a String, in a hash literal or as the
\* index of a hash, evaluates to the Error whose message is exactly
\* "unusable as hash key: " followed by inspect(key), with no quotation marks added and
\* nothing escaped; in a literal the Error is produced before the value expression of
\* the pair is evaluated.
UnusableKeyExpr ==
    LET expr == program.statements[1].expression
    IN  IF expr.kind = "HashLit" THEN expr.pairs[Len(expr.pairs)][1] ELSE expr.index
\* the key is the last expression evaluated ({}[{}] evaluates {} twice)
UnusableKeyValue ==
    trace[ExitOf(CHOOSE i \in Entries(UnusableKeyExpr) : \A j \in Entries(UnusableKeyExpr) : j <= i)].value
C26_UnusableKey ==
    (Finished /\ program \in UnusableKeyPrograms) =>
        /\ pc = "done"
        /\ Entries(UnusableKeyExpr) # {}
        /\ object_type(UnusableKeyValue) \in UnusableKeyTypes
        /\ Entries(PairValue) = {}
        /\ results = Error(<<"unusable as hash key: ">> \o inspect(UnusableKeyValue))

\* C27: the result of a let statement whose value is not an Error is the newly bound
\* value or Null; where the name was already bound in the same scope, a program, block
\* or function body that ends with the let does not yield the previous binding.
LetResultOf(prog) ==
    CHOOSE s \in LetResultShapes \X SmallInts \X SmallInts : LetResultProgram(s[1], s[2], s[3]) = prog
C27_LetResult ==
    (Finished /\ program \in LetResultPrograms) =>
        /\ pc = "done"
        /\ results \in {Integer(LetResultOf(program)[3]), Null}

\* C28: a function captures a snapshot of the environment at the time its literal is
\* evaluated: a let executed afterwards in the defining scope, of a new name or of a name
\* already bound, is not visible in the body when the function is called later; the body
\* sees the bindings that existed at the literal's evaluation, its parameters and its
\* own lets, and nothing else.
SnapshotOf(prog) ==
    CHOOSE s \in SnapshotShapes \X SmallInts \X SmallInts : SnapshotProgram(s[1], s[2], s[3]) = prog
\* The function whose call ends the history, and the environment of that call
LastApplication == CHOOSE i \in Applications : \A j \in Applications : j <= i
C28_Snapshot ==
    (Finished /\ program \in SnapshotPrograms) =>
        LET shape == SnapshotOf(program)[1]
            v == SnapshotOf(program)[2]
            w == SnapshotOf(program)[3]
            captured == trace[LastApplication].function.env
        IN  /\ pc = "done"
            /\ trace[LastApplication].env.outer = captured
            /\ shape = 1 => /\ Environment_get(env, "x") = Some(Integer(v))
                            /\ Environment_get(captured, "x") = None
                            /\ results = Error(<<"identifier not found: ", "x">>)
            /\ shape = 2 => /\ Environment_get(env, "x") = Some(Integer(w))
                            /\ Environment_get(captured, "x") = Some(Integer(v))
                            /\ results = Integer(v)
            /\ shape = 3 => /\ Environment_get(env, "x") = Some(Integer(7))
                            /\ Environment_get(env, "y") = Some(Integer(8))
                            /\ DOMAIN captured.store = {"x"}
                            /\ results = Array(<<Integer(v), Integer(5), Integer(w)>>)
            /\ shape = 4 => /\ Environment_get(captured, "x") = None
                            /\ results = Error(<<"identifier not found: ", "x">>)
            /\ shape = 5 => /\ DOMAIN env.store = {"f"}
                            /\ Environment_get(captured, "f") = None
                            /\ results = Error(<<"identifier not found: ", "f">>)

\* let x = 1; let f = fn() { x }; let x = 2; f(); yields 1 while x is 2
C28_Witness ==
    /\ pc = "done"
    /\ program = SnapshotProgram(2, 1, 2)
    /\ Environment_get(env, "x") = Some(Integer(2))
    /\ Environment_get(trace[LastApplication].function.env, "x") = Some(Integer(1))
    /\ results = Integer(1)

\* C29: a function call changes neither the caller's environment nor the environment the
\* function captured: the parameters and the lets of the body are bound in the fresh
\* environment of the call only.
IsolationOf(prog) ==
    CHOOSE s \in IsolationShapes \X SmallInts \X SmallInts : IsolationProgram(s[1], s[2], s[3]) = prog
C29_CallIsolation ==
    (Finished /\ program \in IsolationPrograms) =>
        LET shape == IsolationOf(program)[1]
            v == IsolationOf(program)[2]
            w == IsolationOf(program)[3]
        IN  /\ pc = "done"
            /\ \A i \in Applications :
                    /\ trace[i].env.outer = trace[i].function.env
                    /\ DOMAIN trace[i].env.store = {trace[i].function.parameters[j].name :
                                                        j \in 1..Len(trace[i].function.parameters)}
                    /\ \A j \in Applications :
                            (trace[j].function.body = trace[i].function.body) =>
                                trace[j].function = trace[i].function
            /\ shape \in {1, 2} =>
                    /\ DOMAIN env.store = {"a", "f"}
                    /\ env.store["a"] = Integer(v)
                    /\ \A i \in Applications : trace[i].function = env.store["f"]
                    /\ DOMAIN env.store["f"].env.store = {"a"}
                    /\ env.store["f"].env.store["a"] = Integer(v)
                    /\ results = IF shape = 1 THEN Integer(9) ELSE Integer(v)
            /\ shape = 3 =>
                    /\ Cardinality(Applications) = 2
                    /\ DOMAIN env.store = {"k", "f"}
                    /\ env.store["k"] = Integer(v)
                    /\ \A i \in Applications : trace[i].function = env.store["f"]
                    /\ DOMAIN env.store["f"].env.store = {"k"}
                    /\ env.store["f"].env.store["k"] = Integer(v)
                    /\ results = Integer(w)
            /\ shape = 4 =>
                    /\ Cardinality(Applications) = 2
                    /\ DOMAIN env.store = {}
                    /\ results = Integer(w)

\* let a = 1; let f = fn(p) { let a = 2; let b = 3; p }; f(9); a; yields 1, and neither
\* p nor b is bound after the call
C29_Witness ==
    /\ pc = "done"
    /\ program = IsolationProgram(2, 1, 2)
    /\ Applications # {}
    /\ DOMAIN env.store = {"a", "f"}
    /\ env.store["f"].env.store["a"] = Integer(1)
    /\ results = Integer(1)

\* C30: a block does not open a scope: a let inside the consequence or the alternative of
\* an if-expression binds in the environment of the enclosing program or function call,
\* and the binding is visible after the block.
BlockScopeOf(prog) ==
    CHOOSE s \in BlockScopeShapes \X SmallInts \X SmallInts : BlockScopeProgram(s[1], s[2], s[3]) = prog
C30_BlocksShareScope ==
    (Finished /\ program \in BlockScopePrograms) =>
        LET shape == BlockScopeOf(program)[1]
            v == BlockScopeOf(program)[2]
            w == BlockScopeOf(program)[3]
            bound == IF shape = 3 THEN w ELSE v
        IN  /\ pc = "done"
            /\ \E i \in 1..Len(trace) : IsEnter(i) /\ trace[i].node = Let("a", Lit(bound)) /\ trace[i].level >= 4
            /\ results = Integer(bound)
            /\ IF shape = 4 THEN DOMAIN env.store = {}
               ELSE DOMAIN env.store = {"a"} /\ env.store["a"] = Integer(bound)

\* let a = 1; if (true) { let a = 2; }; a; yields 2
C30_Witness ==
    /\ pc = "done"
    /\ program = BlockScopeProgram(3, 1, 2)
    /\ \E i \in 1..Len(trace) : IsEnter(i) /\ trace[i].node = Let("a", Lit(2)) /\ trace[i].level = 4
    /\ env.store["a"] = Integer(2)
    /\ results = Integer(2)

====
